---------------------------- MODULE Spec2Model ----------------------------
(***************************************************************************)
(* A model of costools.timefilter (class TimelineFilter): the parsing of   *)
(* the filter string, the evaluation of the parsed filter against the      *)
(* TIMELINE table, the extraction of bad time intervals and the flagging   *)
(* of the DQ column, the merge of good time intervals, and the run of one  *)
(* TimelineFilter(input, output, filter) on a corrtag file.                *)
(*                                                                         *)
(* A Python str is a sequence of one-character strings.  Times are         *)
(* integers counting thirds of a millisecond, so that rounding to three    *)
(* decimals (roundGTI) is not the identity.  Cutoffs and telemetry values  *)
(* are integers counting tenths.                                           *)
(***************************************************************************)
EXTENDS Integers, Sequences, FiniteSets, TLC

VARIABLES
    pc,             \* the step the program is at
    filter_str,     \* the filter argument: a str, or NoneStr
    filter,         \* self.filter: the list of tokens built by interpretFilter
    words,          \* interpretFilter: filter.split()
    i,              \* interpretFilter: index of the next word (0-based)
    timeline,       \* the data of the TIMELINE extension
    flags,          \* setDqFlag: the masks of the "and" groups and the
                    \* conjunctions between them
    flag,           \* setDqFlag: the mask of the whole filter
    first_gti,      \* self.first_gti: the rows [start, stop] of the first GTI
    second_gti,     \* the list of good time intervals found from the DQ column
    gti,            \* the merged, then rounded, list of good time intervals
    events_time,    \* self.events_time: the TIME column of the EVENTS table
    dq,             \* self.dq: the DQ column of the EVENTS table, in memory
    bad_time_intervals, \* setDqFlag: the list of (t0, t1)
    in_bad_interval, \* setDqFlag: whether a bad interval is open
    runs,           \* the number of runs started
    output,         \* self.output
    disk,           \* the input file as it is on disk
    outfile,        \* the output file as it is on disk
    fd,             \* self.fd: the file in memory
    abort,          \* the error that ended the run, "" when none
    original,       \* the input file before the first run
    source_before,  \* the input file when the run started
    output_before,  \* the output file when the run started
    log,            \* the calls that changed the input file, in order
    saa_models,     \* saaModel: the dictionary of the latest call
    model_number,   \* saaModel: the model number of the latest call
    saa_result,     \* saaModel: the error and the list of the latest call
    model_vertices, \* saaFilter: the list it holds
    closed_loops,   \* the models whose list saaFilter has closed
    lookups,        \* the number of calls of saaModel
    contour_model,  \* saaFilter: the model number of the contour under test
    contour,        \* saaFilter: the list of (latitude, longitude) of a contour
    hst_longitude,  \* one row of the longitude column, in degrees
    hst_latitude,   \* one row of the latitude column, in degrees
    saa_flag,       \* saaFilter: flag[k] of that row
    gti_indices,    \* recomputeExptime: the list of [it_begin, it_end]
    file_0,         \* a file before two Filter runs in place
    filter_a,       \* the filter argument of one of the two runs
    filter_b,       \* the filter argument of the other run
    file_a,         \* the file after the run of filter_a on file_0
    file_b,         \* the file after the run of filter_b on file_0
    file_ab,        \* the file after the run of filter_b on file_a
    file_ba         \* the file after the run of filter_a on file_b

parseVars == <<filter_str, filter, words, i>>

evalVars == <<timeline, flags, flag>>

gtiVars == <<first_gti, second_gti, gti>>

flagVars == <<events_time, dq, bad_time_intervals, in_bad_interval>>

runVars == <<runs, output, disk, outfile, fd, abort, original, source_before,
             output_before, log>>

saaVars == <<saa_models, model_number, saa_result, model_vertices, closed_loops,
             lookups>>

withinVars == <<contour_model, contour, hst_longitude, hst_latitude, saa_flag>>

recVars == <<gti_indices>>

orderVars == <<file_0, filter_a, filter_b, file_a, file_b, file_ab, file_ba>>

vars == <<pc, parseVars, evalVars, gtiVars, flagVars, runVars, saaVars,
          withinVars, recVars, orderVars>>

\* ------------------------------------------------------------------------
\* Bounds of the model
\* ------------------------------------------------------------------------

\* the largest number of phrases joined into one filter string
MaxPhrases == 3

\* ------------------------------------------------------------------------
\* Strings
\* ------------------------------------------------------------------------

Min(a, b) == IF a < b THEN a ELSE b

Max(a, b) == IF a > b THEN a ELSE b

\* filter=None
NoneStr == <<"<None>">>

UpperChars == <<"A","B","C","D","E","F","G","H","I","J","K","L","M",
                "N","O","P","Q","R","S","T","U","V","W","X","Y","Z">>

LowerChars == <<"a","b","c","d","e","f","g","h","i","j","k","l","m",
                "n","o","p","q","r","s","t","u","v","w","x","y","z">>

\* str.lower() on one character
LowerChar(c) ==
    IF \E k \in 1..Len(UpperChars) : UpperChars[k] = c
    THEN LowerChars[CHOOSE k \in 1..Len(UpperChars) : UpperChars[k] = c]
    ELSE c

\* str.lower()
LowerStr(s) == [k \in 1..Len(s) |-> LowerChar(s[k])]

\* s[:n]
Take(s, n) == SubSeq(s, 1, Min(n, Len(s)))

IsSpace(c) == c = " "

\* str.split(): the maximal runs of non-whitespace characters, in order
RECURSIVE SplitFrom(_, _, _)
SplitFrom(s, k, cur) ==
    IF k > Len(s)
    THEN IF cur = <<>> THEN <<>> ELSE <<cur>>
    ELSE IF IsSpace(s[k])
         THEN IF cur = <<>> THEN SplitFrom(s, k + 1, <<>>)
              ELSE <<cur>> \o SplitFrom(s, k + 1, <<>>)
         ELSE SplitFrom(s, k + 1, Append(cur, s[k]))

Split(s) == SplitFrom(s, 1, <<>>)

DigitChars == <<"0","1","2","3","4","5","6","7","8","9">>

IsDigit(c) == \E k \in 1..10 : DigitChars[k] = c

DigitVal(c) == (CHOOSE k \in 1..10 : DigitChars[k] = c) - 1

RECURSIVE DigitsVal(_)
DigitsVal(s) ==
    IF s = <<>> THEN 0
    ELSE 10 * DigitsVal(SubSeq(s, 1, Len(s) - 1)) + DigitVal(s[Len(s)])

HasSign(w) == Len(w) > 0 /\ w[1] \in {"+", "-"}

Unsigned(w) == IF HasSign(w) THEN Tail(w) ELSE w

SignOf(w) == IF Len(w) > 0 /\ w[1] = "-" THEN -1 ELSE 1

\* int(w): an optional sign and one or more decimal digits
IntOk(w) ==
    LET u == Unsigned(w)
    IN  Len(u) > 0 /\ \A k \in 1..Len(u) : IsDigit(u[k])

IntVal(w) == SignOf(w) * DigitsVal(Unsigned(w))

\* float(w): an optional sign, decimal digits with at most one point and at
\* least one digit.  (The exponent, inf and nan forms use characters that no
\* modelled word has.)
FloatOk(w) ==
    LET u == Unsigned(w)
    IN  /\ Len(u) > 0
        /\ \A k \in 1..Len(u) : IsDigit(u[k]) \/ u[k] = "."
        /\ Cardinality({k \in 1..Len(u) : u[k] = "."}) <= 1
        /\ \E k \in 1..Len(u) : IsDigit(u[k])

\* the value of float(w) in tenths; the modelled words carry at most one
\* digit after the point
FloatVal(w) ==
    LET u == Unsigned(w)
        p == IF \E k \in 1..Len(u) : u[k] = "."
             THEN CHOOSE k \in 1..Len(u) : u[k] = "."
             ELSE Len(u) + 1
        whole == SubSeq(u, 1, p - 1)
        frac == SubSeq(u, p + 1, Len(u))
    IN  SignOf(w) * (10 * DigitsVal(whole)
                     + (IF frac = <<>> THEN 0 ELSE DigitVal(frac[1])))

\* ------------------------------------------------------------------------
\* Tokens of self.filter
\* ------------------------------------------------------------------------

AND == "and"

OR == "or"

XOR == "xor"

\* ["info"], ["clear"]
ModeTok(m) == [kind |-> "mode", op |-> m, colname |-> <<>>,
               rel |-> "none", cutoff |-> 0]

\* a conjunction: AND, OR, XOR
ConjTok(c) == [kind |-> "conj", op |-> c, colname |-> <<>>,
               rel |-> "none", cutoff |-> 0]

\* the tuple (colname, relation_fcn, cutoff)
CondTok(col, fcn, cut) == [kind |-> "cond", op |-> "", colname |-> col,
                           rel |-> fcn, cutoff |-> cut]

information == <<"i","n","f","o","r","m","a","t","i","o","n">>

W_clear == <<"c","l","e","a","r">>

W_reset == <<"r","e","s","e","t">>

W_and == <<"a","n","d">>

W_or == <<"o","r">>

W_xor == <<"x","o","r">>

W_saa == <<"s","a","a">>

\* RelationFcn with a symbol it does not know taken for "=="
RelationFcnLax(relation) ==
    CASE relation = <<">">> -> "greater"
      [] relation = <<">","=">> -> "greater_equal"
      [] relation = <<"<">> -> "less"
      [] relation = <<"<","=">> -> "less_equal"
      [] relation = <<"!","=">> -> "not_equal"
      [] OTHER -> "equal"

\* the relation symbols interpretFilter knows, with the function of each
RelationFcn(relation) ==
    CASE relation = <<">">> -> "greater"
      [] relation = <<">","=">> -> "greater_equal"
      [] relation = <<"<">> -> "less"
      [] relation = <<"<","=">> -> "less_equal"
      [] relation = <<"=","=">> -> "equal"
      [] relation = <<"=">> -> "equal"
      [] relation = <<"!","=">> -> "not_equal"
      [] OTHER -> "unknown"

\* ------------------------------------------------------------------------
\* interpretFilter
\* ------------------------------------------------------------------------

\* LenFilter without the upper limit
LenFilterUnclamped(f) == Max(4, Len(f))

\* len_filter: the number of leading characters compared with "information"
LenFilter(f) == Min(Max(4, Len(f)), Len(information))

\* the test that selects ["info"] for a str
IsInfo(f) ==
    Take(LowerStr(f), LenFilter(f)) = Take(information, LenFilter(f))

\* the test that selects ["clear"]
IsClear(f) == LowerStr(f) = W_clear \/ LowerStr(f) = W_reset

\* What interpretFilter does before its loop: "info" and "clear" are the two
\* modes, "empty" is the return with self.filter = [], "loop" enters the loop.
InterpretHead(f) ==
    IF f = NoneStr THEN "info"
    ELSE IF IsInfo(f) THEN "info"
    ELSE IF IsClear(f) THEN "clear"
    ELSE IF Len(Split(f)) = 0 THEN "empty"
    ELSE "loop"

\* the conjunction a word stands for, "" when it is none
ConjOf(colname_l) ==
    CASE colname_l = W_and -> AND
      [] colname_l = W_or -> OR
      [] colname_l = W_xor -> XOR
      [] OTHER -> ""

\* the error raised while the words of a condition are read, "" when none
CondReadError(ws, k) ==
    LET nwords == Len(ws)
        colname_l == LowerStr(ws[k + 1])
    IN  IF colname_l = W_saa
        THEN IF k + 1 >= nwords THEN "RuntimeError"
             ELSE IF ~IntOk(ws[k + 2]) THEN "ValueError"
             ELSE ""
        ELSE IF k + 2 >= nwords THEN "RuntimeError"
             ELSE IF ~FloatOk(ws[k + 3]) THEN "ValueError"
             ELSE ""

\* relation_fcn of the condition at word k, "unknown" when the code raises
RelationOf(ws, k) ==
    LET colname_l == LowerStr(ws[k + 1])
    IN  IF colname_l = W_saa THEN "saaFilter"
        ELSE RelationFcn(ws[k + 2])

\* LoopStep that appends no token for a conjunction that is the first word
LoopStepDropLeadingConj(ws, k, flt) ==
    LET colname == ws[k + 1]
        colname_l == LowerStr(colname)
        conj == ConjOf(colname_l)
    IN  IF conj # ""
        THEN [err |-> "",
              filter |-> IF k = 0 THEN flt ELSE Append(flt, ConjTok(conj)),
              i |-> k + 1]
        ELSE IF CondReadError(ws, k) # ""
        THEN [err |-> CondReadError(ws, k), filter |-> flt, i |-> k]
        ELSE IF RelationOf(ws, k) = "unknown"
        THEN [err |-> "RuntimeError", filter |-> flt, i |-> k]
        ELSE IF colname_l = W_saa
        THEN [err |-> "",
              filter |-> Append(flt, CondTok(colname, "saaFilter",
                                             IntVal(ws[k + 2]))),
              i |-> k + 2]
        ELSE [err |-> "",
              filter |-> Append(flt, CondTok(colname, RelationOf(ws, k),
                                             FloatVal(ws[k + 3]))),
              i |-> k + 3]

\* LoopStep that moves on by three words after "saa"
LoopStepSaaWide(ws, k, flt) ==
    LET colname == ws[k + 1]
        colname_l == LowerStr(colname)
        conj == ConjOf(colname_l)
    IN  IF conj # ""
        THEN [err |-> "", filter |-> Append(flt, ConjTok(conj)), i |-> k + 1]
        ELSE IF CondReadError(ws, k) # ""
        THEN [err |-> CondReadError(ws, k), filter |-> flt, i |-> k]
        ELSE IF RelationOf(ws, k) = "unknown"
        THEN [err |-> "RuntimeError", filter |-> flt, i |-> k]
        ELSE IF colname_l = W_saa
        THEN [err |-> "",
              filter |-> Append(flt, CondTok(colname, "saaFilter",
                                             IntVal(ws[k + 2]))),
              i |-> k + 3]
        ELSE [err |-> "",
              filter |-> Append(flt, CondTok(colname, RelationOf(ws, k),
                                             FloatVal(ws[k + 3]))),
              i |-> k + 3]

\* One pass through the body of the while loop, at word k (0-based) with the
\* tokens flt so far: the error raised ("" when none), the tokens and the
\* index afterwards.
LoopStep(ws, k, flt) ==
    LET colname == ws[k + 1]
        colname_l == LowerStr(colname)
        conj == ConjOf(colname_l)
    IN  IF conj # ""
        THEN [err |-> "", filter |-> Append(flt, ConjTok(conj)), i |-> k + 1]
        ELSE IF CondReadError(ws, k) # ""
        THEN [err |-> CondReadError(ws, k), filter |-> flt, i |-> k]
        ELSE IF RelationOf(ws, k) = "unknown"
        THEN [err |-> "RuntimeError", filter |-> flt, i |-> k]
        ELSE IF colname_l = W_saa
        THEN [err |-> "",
              filter |-> Append(flt, CondTok(colname, "saaFilter",
                                             IntVal(ws[k + 2]))),
              i |-> k + 2]
        ELSE [err |-> "",
              filter |-> Append(flt, CondTok(colname, RelationOf(ws, k),
                                             FloatVal(ws[k + 3]))),
              i |-> k + 3]

\* the while loop, run to its end
RECURSIVE InterpretLoop(_, _, _)
InterpretLoop(ws, k, flt) ==
    IF k >= Len(ws) THEN [err |-> "", filter |-> flt]
    ELSE LET r == LoopStep(ws, k, flt)
         IN  IF r.err # "" THEN [err |-> r.err, filter |-> r.filter]
             ELSE InterpretLoop(ws, r.i, r.filter)

\* interpretFilter as a whole: the error raised and self.filter
InterpretFilter(f) ==
    LET head == InterpretHead(f)
    IN  CASE head = "info" -> [err |-> "", filter |-> <<ModeTok("info")>>]
          [] head = "clear" -> [err |-> "", filter |-> <<ModeTok("clear")>>]
          [] head = "empty" -> [err |-> "", filter |-> <<>>]
          [] OTHER -> InterpretLoop(Split(f), 0, <<>>)

\* ------------------------------------------------------------------------
\* setDqFlag: the evaluation of self.filter against the TIMELINE table
\* ------------------------------------------------------------------------

\* The TIMELINE data: the TIME column, the telemetry columns "a", "b", "c"
\* (values in tenths), and per row the set of SAA models whose contour holds
\* the longitude and latitude of that row.
NoTimeline == [time |-> <<>>, a |-> <<>>, b |-> <<>>, c |-> <<>>,
               within |-> <<>>]

\* a mask that is None
NoneMask == [none |-> TRUE, v |-> <<>>]

SomeMask(m) == [none |-> FALSE, v |-> m]

\* an element of the list flags: a mask, or the conjunction OR or XOR
MaskItem(m) == [kind |-> "mask", v |-> m, op |-> ""]

ConjItem(c) == [kind |-> "conj", v |-> <<>>, op |-> c]

\* np.greater and the like, on one value
RelationHolds(fcn, x, cutoff) ==
    CASE fcn = "greater" -> x > cutoff
      [] fcn = "greater_equal" -> x >= cutoff
      [] fcn = "less" -> x < cutoff
      [] fcn = "less_equal" -> x <= cutoff
      [] fcn = "equal" -> x = cutoff
      [] fcn = "not_equal" -> x # cutoff
      [] OTHER -> FALSE

\* the SAA model numbers saamodel.saaModel knows
SaaModelMin == 0

SaaModelMax == 32

\* ------------------------------------------------------------------------
\* saamodel.saaModel
\* ------------------------------------------------------------------------

\* the vertices of SAA model number model, in order: (latitude, longitude)
\* in tenths of a degree
SaaVertices(model) ==
    CASE model = 0 ->
           << <<300, 620>>, <<230, 780>>, <<230, 860>>, <<350, 860>> >>
      [] model = 1 ->
           << <<300, 620>>, <<230, 780>>, <<140, 1020>>, <<200, 1120>>, <<320,
           1160>> >>
      [] model = 2 ->
           << <<-290, 20>>, <<-261, 10>>, <<-230, 3580>>, <<-193, 3530>>,
           <<-156, 3470>>, <<-120, 3400>>, <<-99, 3314>>, <<-91,
           3188>>, <<-100, 3080>>, <<-119, 2972>>, <<-149, 2861>>,
           <<-170, 2830>>, <<-191, 2799>>, <<-213, 2775>>, <<-237,
           2765>>, <<-260, 2764>>, <<-290, 2767>> >>
      [] model = 3 ->
           << <<-283, 140>>, <<-275, 150>>, <<-261, 130>>, <<-198, 15>>, <<-96,
           3410>>, <<-76, 3304>>, <<-60, 3188>>, <<-79, 2972>>,
           <<-120, 2861>>, <<-171, 2799>>, <<-203, 2775>>, <<-235,
           2765>>, <<-260, 2764>>, <<-286, 2767>> >>
      [] model = 4 ->
           << <<-285, 190>>, <<-160, 10>>, <<-65, 3450>>, <<-20, 3350>>, <<10,
           3120>>, <<-30, 2940>>, <<-70, 2840>>, <<-100, 2780>>,
           <<-150, 2720>>, <<-200, 2670>>, <<-300, 2690>> >>
      [] model = 5 ->
           << <<-500, 2940>>, <<-300, 390>>, <<-250, 340>>, <<-210, 240>>,
           <<-160, 90>>, <<-102, 3540>>, <<-20, 3350>>, <<10,
           3120>>, <<-30, 2940>>, <<-80, 2770>>, <<-200, 2670>>,
           <<-300, 2690>> >>
      [] model = 6 ->
           << <<-283, 140>>, <<-275, 150>>, <<-261, 130>>, <<-198, 15>>, <<-96,
           3410>>, <<-76, 3304>>, <<-60, 3188>>, <<-79, 2972>>,
           <<-120, 2861>>, <<-171, 2799>>, <<-203, 2775>>, <<-235,
           2765>>, <<-260, 2764>>, <<-286, 2767>> >>
      [] model = 7 ->
           << <<-500, 3000>>, <<-410, 3490>>, <<-230, 50>>, <<-20, 3410>>,
           <<10, 3180>>, <<-30, 3000>>, <<-80, 2830>>, <<-200,
           2730>>, <<-300, 2750>> >>
      [] model = 8 ->
           << <<-330, 3250>>, <<-320, 3200>>, <<-310, 3070>>, <<-320, 3010>>,
           <<-350, 2990>>, <<-370, 3000>>, <<-380, 3050>>, <<-380,
           3100>>, <<-360, 3200>> >>
      [] model = 9 ->
           << <<-480, 3000>>, <<-300, 430>>, <<-230, 310>>, <<-160, 140>>,
           <<-50, 3450>>, <<-30, 3390>>, <<0, 3170>>, <<-90, 2850>>,
           <<-200, 2760>>, <<-300, 2760>> >>
      [] model = 10 ->
           << <<-380, 3350>>, <<-300, 3500>>, <<-260, 3550>>, <<-210, 3590>>,
           <<-200, 3450>>, <<-240, 3250>>, <<-270, 3150>>, <<-352,
           3000>>, <<-390, 2950>>, <<-420, 2920>>, <<-430, 3000>>,
           <<-420, 3210>> >>
      [] model = 11 ->
           << <<-330, 3250>>, <<-320, 3200>>, <<-310, 3070>>, <<-320, 3010>>,
           <<-350, 2990>>, <<-370, 3000>>, <<-380, 3050>>, <<-380,
           3100>>, <<-360, 3200>> >>
      [] model = 12 ->
           << <<-330, 3360>>, <<-310, 3400>>, <<-280, 3450>>, <<-240, 3500>>,
           <<-230, 3470>>, <<-220, 3430>>, <<-180, 3290>>, <<-160,
           3180>>, <<-210, 3000>>, <<-230, 2960>>, <<-250, 2940>>,
           <<-300, 2960>>, <<-380, 3000>> >>
      [] model = 13 ->
           << <<-300, 3490>>, <<-260, 3510>>, <<-240, 3505>>, <<-180, 3490>>,
           <<-140, 3400>>, <<-120, 3300>>, <<-120, 3100>>, <<-130,
           3000>>, <<-138, 2970>>, <<-160, 2930>>, <<-195, 2880>>,
           <<-240, 2845>>, <<-260, 2840>>, <<-300, 2850>> >>
      [] model = 14 ->
           << <<-320, 0>>, <<-230, 3530>>, <<-190, 3500>>, <<-140, 3400>>,
           <<-120, 3340>>, <<-112, 3280>>, <<-110, 3260>>, <<-120,
           3100>>, <<-150, 3000>>, <<-160, 2980>>, <<-200, 2940>>,
           <<-250, 2890>>, <<-300, 2900>>, <<-380, 2960>>, <<-420,
           3010>>, <<-360, 3510>> >>
      [] model = 15 ->
           << <<-310, 100>>, <<-250, 150>>, <<-200, 20>>, <<-150, 3500>>,
           <<-110, 3400>>, <<-100, 3370>>, <<-90, 3340>>, <<-80,
           3300>>, <<-100, 3040>>, <<-110, 2990>>, <<-120, 2970>>,
           <<-200, 2860>>, <<-250, 2830>>, <<-300, 2850>>, <<-360,
           2900>>, <<-450, 3000>> >>
      [] model = 16 ->
           << <<-310, 300>>, <<-260, 330>>, <<-250, 300>>, <<-180, 100>>,
           <<-100, 3500>>, <<-70, 3430>>, <<-50, 3340>>, <<-50,
           3180>>, <<-60, 3040>>, <<-70, 2980>>, <<-120, 2900>>,
           <<-200, 2820>>, <<-260, 2790>>, <<-300, 2820>>, <<-470,
           3000>> >>
      [] model = 17 ->
           << <<-440, 0>>, <<-300, 260>>, <<-250, 270>>, <<-170, 60>>, <<-80,
           3440>>, <<-60, 3140>>, <<-70, 3020>>, <<-170, 2860>>,
           <<-250, 2820>>, <<-300, 2840>>, <<-460, 3000>> >>
      [] model = 18 ->
           << <<-280, 135>>, <<-239, 128>>, <<-183, 72>>, <<0, 3410>>, <<30,
           3090>>, <<0, 2885>>, <<-94, 2726>>, <<-178, 2682>>,
           <<-258, 2691>>, <<-290, 2750>> >>
      [] model = 19 ->
           << <<-300, 2830>>, <<-290, 3570>>, <<-270, 3590>>, <<-250, 3590>>,
           <<-210, 3570>>, <<-190, 3550>>, <<-10, 3290>>, <<-10,
           3170>>, <<-50, 2930>>, <<-130, 2810>>, <<-150, 2790>>,
           <<-270, 2790>>, <<-290, 2810>> >>
      [] model = 20 ->
           << <<-300, 2850>>, <<-290, 3470>>, <<-270, 3510>>, <<-210, 3510>>,
           <<-170, 3490>>, <<-10, 3250>>, <<-10, 3230>>, <<-30,
           3070>>, <<-50, 2990>>, <<-90, 2920>>, <<-130, 2850>>,
           <<-230, 2790>>, <<-250, 2790>>, <<-290, 2830>> >>
      [] model = 21 ->
           << <<-420, 2944>>, <<-428, 3014>>, <<-290, 3570>>, <<-270, 3590>>,
           <<-209, 3590>>, <<-10, 3320>>, <<-10, 3170>>, <<-50,
           2930>>, <<-130, 2810>>, <<-150, 2790>>, <<-270, 2790>>,
           <<-327, 2826>> >>
      [] model = 22 ->
           << <<-420, 2944>>, <<-428, 3014>>, <<-300, 3500>>, <<-209, 3584>>,
           <<-49, 3358>>, <<-10, 3250>>, <<-10, 3230>>, <<-30,
           3070>>, <<-50, 2990>>, <<-90, 2920>>, <<-130, 2850>>,
           <<-220, 2790>>, <<-250, 2790>>, <<-327, 2826>> >>
      [] model = 23 ->
           << <<-500, 2940>>, <<-300, 390>>, <<-250, 340>>, <<-210, 240>>,
           <<-160, 90>>, <<-102, 3540>>, <<-20, 3350>>, <<10,
           3120>>, <<-30, 2940>>, <<-80, 2770>>, <<-200, 2670>>,
           <<-300, 2690>> >>
      [] model = 24 ->
           << <<-283, 140>>, <<-275, 150>>, <<-261, 130>>, <<-198, 15>>, <<-96,
           3410>>, <<-76, 3304>>, <<-60, 3188>>, <<-79, 2972>>,
           <<-120, 2861>>, <<-171, 2799>>, <<-203, 2775>>, <<-235,
           2765>>, <<-260, 2764>>, <<-286, 2767>> >>
      [] model = 25 ->
           << <<-283, 140>>, <<-275, 150>>, <<-261, 130>>, <<-198, 15>>, <<-96,
           3410>>, <<-76, 3304>>, <<-60, 3188>>, <<-79, 2972>>,
           <<-120, 2861>>, <<-171, 2799>>, <<-203, 2775>>, <<-235,
           2765>>, <<-260, 2764>>, <<-286, 2767>> >>
      [] model = 26 ->
           << <<-285, 250>>, <<-160, 70>>, <<-65, 3510>>, <<-20, 3410>>, <<10,
           3180>>, <<-30, 3000>>, <<-70, 2900>>, <<-100, 2840>>,
           <<-150, 2780>>, <<-200, 2730>>, <<-300, 2750>> >>
      [] model = 27 ->
           << <<-285, 190>>, <<-160, 10>>, <<-65, 3450>>, <<-20, 3350>>, <<10,
           3120>>, <<-30, 2940>>, <<-70, 2840>>, <<-100, 2780>>,
           <<-150, 2720>>, <<-200, 2670>>, <<-300, 2690>> >>
      [] model = 28 ->
           << <<-285, 190>>, <<-160, 10>>, <<-65, 3450>>, <<-20, 3350>>, <<10,
           3120>>, <<-30, 2940>>, <<-70, 2840>>, <<-100, 2780>>,
           <<-150, 2720>>, <<-200, 2670>>, <<-300, 2690>> >>
      [] model = 29 ->
           << <<-285, 190>>, <<-160, 10>>, <<-65, 3450>>, <<-20, 3350>>, <<10,
           3120>>, <<-30, 2940>>, <<-70, 2840>>, <<-100, 2780>>,
           <<-150, 2720>>, <<-200, 2670>>, <<-300, 2690>> >>
      [] model = 30 ->
           << <<-285, 190>>, <<-160, 10>>, <<-65, 3450>>, <<-20, 3350>>, <<10,
           3120>>, <<-30, 2940>>, <<-70, 2840>>, <<-100, 2780>>,
           <<-150, 2720>>, <<-200, 2670>>, <<-300, 2690>> >>
      [] model = 31 ->
           << <<-283, 140>>, <<-275, 150>>, <<-261, 130>>, <<-198, 15>>, <<-96,
           3410>>, <<-76, 3304>>, <<-60, 3188>>, <<-79, 2972>>,
           <<-120, 2861>>, <<-171, 2799>>, <<-203, 2775>>, <<-235,
           2765>>, <<-260, 2764>>, <<-286, 2767>> >>
      [] model = 32 ->
           << <<-283, 140>>, <<-275, 150>>, <<-261, 130>>, <<-198, 15>>, <<-96,
           3410>>, <<-76, 3304>>, <<-60, 3188>>, <<-79, 2972>>,
           <<-120, 2861>>, <<-171, 2799>>, <<-203, 2775>>, <<-235,
           2765>>, <<-260, 2764>>, <<-286, 2767>> >>

\* SaaModelsAtCall that keeps the dictionary of the call before
SaaModelsKept(prev) ==
    IF DOMAIN prev = {}
    THEN [k \in SaaModelMin..SaaModelMax |-> SaaVertices(k)]
    ELSE prev

\* the dictionary saa_models, which every call of saaModel builds anew; prev
\* is the dictionary of the call before
SaaModelsAtCall(prev) == [k \in SaaModelMin..SaaModelMax |-> SaaVertices(k)]

\* saaModel(model), lines 589-597: the error raised ("" when none) and the
\* list returned, given the dictionary of this call
SaaModel(models, model) ==
    IF model \notin DOMAIN models
    THEN [err |-> "KeyError", v |-> <<>>]
    ELSE [err |-> "", v |-> models[model]]

\* ------------------------------------------------------------------------
\* toRect, testWithinSAA and the vertices of saaFilter, in fixed point:
\* angles are whole degrees that are multiples of 5, the components of a
\* unit vector are integers counting 1/10000
\* ------------------------------------------------------------------------

\* 10000 * sin of 0, 5, ..., 90 degrees
SinTable ==
    <<0, 872, 1736, 2588, 3420, 4226, 5000, 5736, 6428, 7071, 7660, 8192,
      8660, 9063, 9397, 9659, 9848, 9962, 10000>>

\* math.sin and math.cos of an angle in degrees
SinDeg(a) ==
    LET r == a % 360
    IN  IF r <= 90 THEN SinTable[(r \div 5) + 1]
        ELSE IF r <= 180 THEN SinTable[((180 - r) \div 5) + 1]
        ELSE IF r <= 270 THEN -SinTable[((r - 180) \div 5) + 1]
        ELSE -SinTable[((360 - r) \div 5) + 1]

CosDeg(a) == SinDeg(a + 90)

\* 1.0
Unit == SinDeg(90)

\* a / b to the nearest integer, b > 0
RDiv(a, b) == (2 * a + b) \div (2 * b)

\* the r from lo to hi with r^2 <= n < (r + 1)^2, by bisection
RECURSIVE SqrtBetween(_, _, _)
SqrtBetween(n, lo, hi) ==
    IF lo >= hi THEN lo
    ELSE LET mid == (lo + hi + 1) \div 2
         IN  IF mid * mid <= n THEN SqrtBetween(n, mid, hi)
             ELSE SqrtBetween(n, lo, mid - 1)

\* math.sqrt of n / Unit^2, times Unit
Sqrt(n) == SqrtBetween(n, 0, Unit)

\* toRect(longitude, latitude)
ToRect(longitude, latitude) ==
    << RDiv(CosDeg(latitude) * CosDeg(longitude), Unit),
       RDiv(CosDeg(latitude) * SinDeg(longitude), Unit),
       SinDeg(latitude) >>

\* np.dot, times Unit^2
Dot(u, v) == u[1] * v[1] + u[2] * v[2] + u[3] * v[3]

\* the angles np.arctan2 may give, to 5 degrees: -175, ..., 180
Azimuths == { 5 * k : k \in -35..36 }

\* np.arctan2(z, y) in degrees, to 5 degrees: the angle whose direction is
\* nearest to that of (y, z)
ArcTan2(z, y) ==
    IF y = 0 /\ z = 0 THEN 0
    ELSE CHOOSE a \in Azimuths :
           /\ y * CosDeg(a) + z * SinDeg(a) > 0
           /\ \A b \in {a - 5, a + 5} :
                 y * CosDeg(a) + z * SinDeg(a)
                   >= y * CosDeg(b) + z * SinDeg(b)

\* 0.1 radian, in thousandths of a degree
SumTolerance == 5730

\* lines 276-292: the azimuth of one vertex as seen from hst, from 0 to 360
Azimuth(hst, vertex) ==
    LET sin_lat_hst == hst[3]
        cos_lat_hst == Sqrt(Unit * Unit - sin_lat_hst * sin_lat_hst)
        cos_long_hst == RDiv(hst[1] * Unit, cos_lat_hst)
        sin_long_hst == RDiv(hst[2] * Unit, cos_lat_hst)
        v_rot0 == RDiv(vertex[1] * cos_long_hst + vertex[2] * sin_long_hst,
                       Unit)
        v_rot1 == RDiv(vertex[2] * cos_long_hst - vertex[1] * sin_long_hst,
                       Unit)
        v_rotrot2 == RDiv(vertex[3] * cos_lat_hst - v_rot0 * sin_lat_hst,
                          Unit)
        az == ArcTan2(v_rotrot2, v_rot1)
    IN  IF az < 0 THEN az + 360 ELSE az

\* lines 294-296: one element of delta_az
DeltaAz(az1, az2) ==
    LET d == az2 - az1
        e == IF d < -180 THEN d + 360 ELSE d
    IN  IF e > 180 THEN e - 360 ELSE e

RECURSIVE SumDeltaAz(_, _)
SumDeltaAz(azimuth, k) ==
    IF k >= Len(azimuth) THEN 0
    ELSE DeltaAz(azimuth[k], azimuth[k + 1]) + SumDeltaAz(azimuth, k + 1)

\* lines 276-300: the test on the sum of the changes of azimuth
WindsAround(hst, vertices) ==
    LET azimuth == [k \in 1..Len(vertices) |-> Azimuth(hst, vertices[k])]
        sum_delta_az == SumDeltaAz(azimuth, 1)
    IN  ~(sum_delta_az * 1000 < SumTolerance
            /\ sum_delta_az * 1000 > -SumTolerance)

\* TestWithinSAA with no test on the side of the Earth hst is on
TestWithinSAAAnySide(hst, vertices, middle_SAA) ==
    WindsAround(hst, vertices)

\* testWithinSAA(hst, vertices, middle_SAA)
TestWithinSAA(hst, vertices, middle_SAA) ==
    IF Dot(hst, middle_SAA) < 0 THEN FALSE
    ELSE WindsAround(hst, vertices)

\* SAA_LONGITUDE_CUTOFF, in degrees
SAA_LONGITUDE_CUTOFF == 200

\* saaFilter, lines 842-843: the longitude that enters minmax_long
ShiftedLongitude(model, longitude) ==
    IF model > 1 /\ longitude < SAA_LONGITUDE_CUTOFF
    THEN longitude + 360 ELSE longitude

\* the least and the greatest element of a set of numbers that is not empty
MinOf(S) == CHOOSE x \in S : \A y \in S : x <= y

MaxOf(S) == CHOOSE x \in S : \A y \in S : x >= y

\* saaFilter, lines 836-849: middle_SAA of a closed list of (latitude,
\* longitude) in degrees; the two sums are even for the lists of the model
MiddleSAA(model, closed) ==
    LET longs == { ShiftedLongitude(model, closed[k][2]) :
                     k \in 1..Len(closed) }
        lats == { closed[k][1] : k \in 1..Len(closed) }
    IN  ToRect((MinOf(longs) + MaxOf(longs)) \div 2,
               (MinOf(lats) + MaxOf(lats)) \div 2)

\* saaFilter, lines 835-841: the unit vectors of the vertices
VertexVectors(closed) ==
    [k \in 1..Len(closed) |-> ToRect(closed[k][2], closed[k][1])]

\* saaFilter, lines 833-855, for one row: whether (longitude, latitude) is
\* within the contour whose vertices are model_list
WithinContour(model, model_list, longitude, latitude) ==
    LET closed == Append(model_list, model_list[1])
    IN  TestWithinSAA(ToRect(longitude, latitude), VertexVectors(closed),
                      MiddleSAA(model, closed))

\* ------------------------------------------------------------------------
\* setDqFlag: the conditions
\* ------------------------------------------------------------------------

HasColumn(colname) == LowerStr(colname) \in {<<"a">>, <<"b">>, <<"c">>}

\* data.field(colname)
Field(tl, colname) ==
    CASE LowerStr(colname) = <<"a">> -> tl.a
      [] LowerStr(colname) = <<"b">> -> tl.b
      [] OTHER -> tl.c

\* saaFilter: True where HST is within the contour of the model
SaaFilter(tl, model) == [k \in 1..Len(tl.time) |-> model \in tl.within[k]]

\* relation_fcn(filter_col, cutoff) for one condition: the error raised ("" when
\* none) and the mask
CondMask(tl, item) ==
    IF item.rel = "saaFilter"
    THEN IF item.cutoff \in SaaModelMin..SaaModelMax
         THEN [err |-> "", v |-> SaaFilter(tl, item.cutoff)]
         ELSE [err |-> "KeyError", v |-> <<>>]
    ELSE IF HasColumn(item.colname)
         THEN [err |-> "",
               v |-> [k \in 1..Len(tl.time) |->
                        RelationHolds(item.rel, Field(tl, item.colname)[k],
                                      item.cutoff)]]
         ELSE [err |-> "KeyError", v |-> <<>>]

LogicalAnd(m1, m2) == [k \in 1..Len(m1) |-> m1[k] /\ m2[k]]

LogicalOr(m1, m2) == [k \in 1..Len(m1) |-> m1[k] \/ m2[k]]

LogicalXor(m1, m2) == [k \in 1..Len(m1) |-> m1[k] # m2[k]]

\* The state of the first loop before any item; conj "" is None.
GroupStart == [err |-> "", flags |-> <<>>, flag_a |-> NoneMask, conj |-> "",
               saved |-> FALSE]

\* one pass through the body of the first loop
GroupStep(st, item, tl) ==
    IF item.kind = "cond"
    THEN IF st.conj = "" \/ st.conj = AND
         THEN LET m == CondMask(tl, item)
              IN  IF m.err # "" THEN [st EXCEPT !.err = m.err]
                  ELSE [st EXCEPT
                          !.flag_a = IF st.flag_a.none THEN SomeMask(m.v)
                                     ELSE SomeMask(LogicalAnd(st.flag_a.v, m.v)),
                          !.saved = FALSE]
         ELSE st
    ELSE IF item.op = AND
         THEN [st EXCEPT !.conj = AND]
    ELSE IF item.op = OR \/ item.op = XOR
         THEN IF st.flag_a.none
              THEN [st EXCEPT !.err = "AttributeError"]
              ELSE [st EXCEPT
                      !.flags = st.flags \o <<MaskItem(st.flag_a.v),
                                              ConjItem(item.op)>>,
                      !.flag_a = NoneMask,
                      !.saved = TRUE,
                      !.conj = ""]
    ELSE [st EXCEPT !.err = "RuntimeError"]

RECURSIVE GroupLoop(_, _, _, _)
GroupLoop(st, flt, k, tl) ==
    IF k > Len(flt) \/ st.err # "" THEN st
    ELSE GroupLoop(GroupStep(st, flt[k], tl), flt, k + 1, tl)

\* EvalGroups with flag_a appended after the loop whatever saved is
EvalGroupsIgnoreSaved(flt, tl) ==
    LET st == GroupLoop(GroupStart, flt, 1, tl)
    IN  IF st.err # "" THEN [err |-> st.err, flags |-> st.flags]
        ELSE IF st.flag_a.none
             THEN [err |-> "AttributeError", flags |-> st.flags]
             ELSE [err |-> "",
                   flags |-> Append(st.flags, MaskItem(st.flag_a.v))]

\* The first loop and the append after it: the error raised ("" when none)
\* and the list flags.
EvalGroups(flt, tl) ==
    LET st == GroupLoop(GroupStart, flt, 1, tl)
    IN  IF st.err # "" THEN [err |-> st.err, flags |-> st.flags]
        ELSE IF st.saved THEN [err |-> "", flags |-> st.flags]
        ELSE IF st.flag_a.none
             THEN [err |-> "AttributeError", flags |-> st.flags]
             ELSE [err |-> "",
                   flags |-> Append(st.flags, MaskItem(st.flag_a.v))]

\* FoldStep with "xor" combined as "or"
FoldStepXorAsOr(st, item) ==
    IF item.kind = "mask"
    THEN [flag |-> IF st.conj = "" THEN item.v
                   ELSE LogicalOr(st.flag, item.v),
          conj |-> ""]
    ELSE [st EXCEPT !.conj = item.op]

\* one pass through the body of the second loop
FoldStep(st, item) ==
    IF item.kind = "mask"
    THEN [flag |-> IF st.conj = "" THEN item.v
                   ELSE IF st.conj = OR THEN LogicalOr(st.flag, item.v)
                   ELSE LogicalXor(st.flag, item.v),
          conj |-> ""]
    ELSE [st EXCEPT !.conj = item.op]

RECURSIVE FoldLoop(_, _, _)
FoldLoop(st, fl, k) ==
    IF k > Len(fl) THEN st
    ELSE FoldLoop(FoldStep(st, fl[k]), fl, k + 1)

\* the second loop: flag, the mask of the whole filter
FoldFlags(fl) == FoldLoop([flag |-> <<>>, conj |-> ""], fl, 1).flag

\* ------------------------------------------------------------------------
\* setDqFlag: the bad time intervals and the DQ column
\* ------------------------------------------------------------------------

\* calcosparam.DQ_BAD_TIME
DQ_BAD_TIME == 2048

\* calcosparam.DQ_BURST
DQ_BURST == 64

\* whether the bit is set in x
HasBit(x, bit) == (x \div bit) % 2 = 1

\* SetBit that clears a bit that is set
SetBitToggle(x, bit) == IF HasBit(x, bit) THEN x - bit ELSE x + bit

\* x | bit
SetBit(x, bit) == IF HasBit(x, bit) THEN x ELSE x + bit

\* ClearBit that clears every bit
ClearBitAll(x, bit) == 0

\* ClearBit that clears the burst flag too
ClearBitAndBurst(x, bit) ==
    LET y == IF HasBit(x, bit) THEN x - bit ELSE x
    IN  IF HasBit(y, DQ_BURST) THEN y - DQ_BURST ELSE y

\* x & (-1 ^ bit)
ClearBit(x, bit) == IF HasBit(x, bit) THEN x - bit ELSE x

\* ccos.range(time, t0, t1): the 0-based pair (i, j) such that time[i:j] are
\* the times of the half-open window from t0 to t1
CcosRange(time, t0, t1) ==
    << Cardinality({n \in 1..Len(time) : time[n] < t0}),
       Cardinality({n \in 1..Len(time) : time[n] < t1}) >>

\* FlagSlice that sets the flag from lo to the last event
FlagSliceToEnd(d, lo, hi) ==
    [n \in 1..Len(d) |->
        IF lo < n THEN SetBit(d[n], DQ_BAD_TIME) ELSE d[n]]

\* dq[i:j] |= DQ_BAD_TIME, i and j 0-based as in Python
FlagSlice(d, lo, hi) ==
    [n \in 1..Len(d) |->
        IF lo < n /\ n <= hi THEN SetBit(d[n], DQ_BAD_TIME) ELSE d[n]]

\* the state of the loop over the TIMELINE rows before the first row
ExtractStart(d) ==
    [in_bad_interval |-> FALSE, ki |-> 0, dq |-> d,
     bad_time_intervals |-> <<>>]

\* ExtractStep with the interval ended at the last bad row
ExtractStepLastBad(st, k, fl, time_col, ev_time) ==
    IF fl[k + 1]
    THEN IF ~st.in_bad_interval
         THEN [st EXCEPT !.in_bad_interval = TRUE, !.ki = k]
         ELSE st
    ELSE IF st.in_bad_interval
         THEN LET t0 == time_col[st.ki + 1]
                  t1 == time_col[k]
                  r == CcosRange(ev_time, t0, t1)
              IN  [st EXCEPT !.in_bad_interval = FALSE,
                             !.dq = FlagSlice(st.dq, r[1], r[2]),
                             !.bad_time_intervals =
                                 Append(st.bad_time_intervals, <<t0, t1>>)]
         ELSE st

\* one pass through the body of the loop, at row k (0-based)
ExtractStep(st, k, fl, time_col, ev_time) ==
    IF fl[k + 1]
    THEN IF ~st.in_bad_interval
         THEN [st EXCEPT !.in_bad_interval = TRUE, !.ki = k]
         ELSE st
    ELSE IF st.in_bad_interval
         THEN LET t0 == time_col[st.ki + 1]
                  t1 == time_col[k + 1]
                  r == CcosRange(ev_time, t0, t1)
              IN  [st EXCEPT !.in_bad_interval = FALSE,
                             !.dq = FlagSlice(st.dq, r[1], r[2]),
                             !.bad_time_intervals =
                                 Append(st.bad_time_intervals, <<t0, t1>>)]
         ELSE st

RECURSIVE ExtractLoop(_, _, _, _, _)
ExtractLoop(st, k, fl, time_col, ev_time) ==
    IF k >= Len(time_col) THEN st
    ELSE ExtractLoop(ExtractStep(st, k, fl, time_col, ev_time), k + 1, fl,
                     time_col, ev_time)

\* ExtractEnd that records the interval and sets no flag
ExtractEndNoFlag(st, time_col, ev_time) ==
    IF st.in_bad_interval
    THEN [st EXCEPT !.bad_time_intervals =
                        Append(st.bad_time_intervals,
                               <<time_col[st.ki + 1], ev_time[Len(ev_time)]>>)]
    ELSE st

\* after the loop: a bad interval that is open lasts to the last event
ExtractEnd(st, time_col, ev_time) ==
    IF st.in_bad_interval
    THEN LET t0 == time_col[st.ki + 1]
             t1 == ev_time[Len(ev_time)]
             r == CcosRange(ev_time, t0, t1)
         IN  [st EXCEPT !.dq = FlagSlice(st.dq, r[1], Len(ev_time)),
                        !.bad_time_intervals =
                            Append(st.bad_time_intervals, <<t0, t1>>)]
    ELSE st

\* lines 765-789 as a whole
ExtractIntervals(fl, time_col, ev_time, d) ==
    ExtractEnd(ExtractLoop(ExtractStart(d), 0, fl, time_col, ev_time),
               time_col, ev_time)

\* ------------------------------------------------------------------------
\* mergeGTI and roundGTI
\* ------------------------------------------------------------------------

\* MergePair that does not clip an interval that starts before start_1
MergePairUnclipped(iv1, iv2) ==
    LET start_1 == iv1[1]
        stop_1 == iv1[2]
        start_2 == iv2[1]
        stop_2 == iv2[2]
    IN  IF stop_2 <= start_1 THEN <<>>
        ELSE IF start_2 >= stop_1 THEN <<>>
        ELSE IF stop_2 <= stop_1 THEN << <<start_2, stop_2>> >>
        ELSE IF start_2 >= start_1 THEN << <<start_2, stop_1>> >>
        ELSE << <<start_1, stop_1>> >>

\* MergePair that takes intervals that only touch as overlapping
MergePairTouching(iv1, iv2) ==
    LET start_1 == iv1[1]
        stop_1 == iv1[2]
        start_2 == iv2[1]
        stop_2 == iv2[2]
    IN  IF stop_2 < start_1 THEN <<>>
        ELSE IF start_2 > stop_1 THEN <<>>
        ELSE << << IF start_2 >= start_1 THEN start_2 ELSE start_1,
                   IF stop_2 <= stop_1 THEN stop_2 ELSE stop_1 >> >>

\* What the body of the inner loop of mergeGTI appends for one interval of
\* first_gti and one of second_gti: nothing, or one interval.
MergePair(iv1, iv2) ==
    LET start_1 == iv1[1]
        stop_1 == iv1[2]
        start_2 == iv2[1]
        stop_2 == iv2[2]
    IN  IF stop_2 <= start_1 THEN <<>>
        ELSE IF start_2 >= stop_1 THEN <<>>
        ELSE IF start_2 >= start_1 /\ stop_2 <= stop_1
             THEN << <<start_2, stop_2>> >>
        ELSE IF start_2 <= start_1 /\ stop_2 <= stop_1
             THEN << <<start_1, stop_2>> >>
        ELSE IF start_2 >= start_1 /\ stop_2 > stop_1
             THEN << <<start_2, stop_1>> >>
        ELSE IF start_2 <= start_1 /\ stop_2 >= stop_1
             THEN << <<start_1, stop_1>> >>
        ELSE <<>>

\* the inner loop, from the k-th interval of second_gti on
RECURSIVE MergeInner(_, _, _)
MergeInner(iv1, g2, k) ==
    IF k > Len(g2) THEN <<>>
    ELSE MergePair(iv1, g2[k]) \o MergeInner(iv1, g2, k + 1)

\* the outer loop, from the k-th interval of first_gti on
RECURSIVE MergeOuter(_, _, _)
MergeOuter(g1, g2, k) ==
    IF k > Len(g1) THEN <<>>
    ELSE MergeInner(g1[k], g2, 1) \o MergeOuter(g1, g2, k + 1)

MergeGTI(g1, g2) == MergeOuter(g1, g2, 1)

\* round(t, 3): the nearest whole millisecond; t counts thirds of one, so no
\* time is half way between two
RoundTime(t) == 3 * ((t + 1) \div 3)

RoundGTI(input_gti) ==
    [k \in 1..Len(input_gti) |->
        <<RoundTime(input_gti[k][1]), RoundTime(input_gti[k][2])>>]

\* ------------------------------------------------------------------------
\* The file: the primary header, the EVENTS and TIMELINE tables, the GTI tables
\* ------------------------------------------------------------------------

\* no file of that name
NoFile == [exists |-> FALSE]

\* self.output is None
NoOutput == "<None>"

\* len(self.fd) - 1: the number of extensions
NumExtensions(f) == f.n_events + f.n_timeline + Len(f.gtis)

\* findExtensions: self.gti_list as the places of the GTI tables in the file,
\* sorted by [extver, hdunum]
GtiRank(f, k) ==
    Cardinality({ j \in 1..Len(f.gtis) :
                    \/ f.gtis[j].extver < f.gtis[k].extver
                    \/ f.gtis[j].extver = f.gtis[k].extver /\ j < k }) + 1

GtiList(f) ==
    [r \in 1..Len(f.gtis) |->
        CHOOSE k \in 1..Len(f.gtis) : GtiRank(f, k) = r]

\* findHduNum: the first and the last GTI table of self.gti_list; 0 is None
FirstGtiHdu(f) == IF Len(f.gtis) = 0 THEN 0 ELSE GtiList(f)[1]

GtiHdu(f) == IF Len(f.gtis) = 0 THEN 0 ELSE GtiList(f)[Len(f.gtis)]

\* IoMode that is "update" for every run
IoModeUpdate(flt, out) == "update"

\* lines 401-406
IoMode(flt, out) ==
    IF flt = <<ModeTok("info")>> THEN "readonly"
    ELSE IF out = NoOutput THEN "update"
    ELSE "readonly"

\* OpenAbort without the check that the output does not exist yet
OpenAbortNoExistsCheck(f, out, outf) ==
    IF f.n_events > 1 THEN "events_tables"
    ELSE IF f.n_timeline > 1 THEN "timeline_tables"
    ELSE IF f.n_events = 0 THEN "no_events"
    ELSE IF FirstGtiHdu(f) = 0 THEN "no_gti"
    ELSE ""

\* lines 408-428: the error that ends the run, "" when none
OpenAbort(f, out, outf) ==
    IF out # NoOutput /\ outf.exists THEN "exists"
    ELSE IF f.n_events > 1 THEN "events_tables"
    ELSE IF f.n_timeline > 1 THEN "timeline_tables"
    ELSE IF f.n_events = 0 THEN "no_events"
    ELSE IF FirstGtiHdu(f) = 0 THEN "no_gti"
    ELSE ""

\* the columns of the TIMELINE table that printInfo reads after TIME
InfoColumns ==
    {"sun_alt", "target_alt", "longitude", "latitude", "shift1", "ly_alpha",
     "darkrate"}

\* PrintInfoAbort that raises no error
PrintInfoAbortNever(f) == ""

\* printInfo, lines 572-590: the error that ends the run, "" when none
PrintInfoAbort(f) ==
    IF f.n_timeline = 0 THEN ""
    ELSE IF Len(f.tl.time) <= 0 THEN ""
    ELSE IF \E col \in InfoColumns : col \notin f.columns THEN "KeyError"
    ELSE ""

\* Dispatch with "info" taken as "clear"
DispatchInfoAsClear(flt) ==
    IF flt = <<ModeTok("info")>> THEN "clearDqFlag"
    ELSE IF flt = <<ModeTok("clear")>> THEN "clearDqFlag"
    ELSE "setDqFlag"

\* lines 430-435
Dispatch(flt) ==
    IF flt = <<ModeTok("info")>> THEN "printInfo"
    ELSE IF flt = <<ModeTok("clear")>> THEN "clearDqFlag"
    ELSE "setDqFlag"

\* IFlag that looks at the bad time flag only
IFlagBadTimeOnly(d) ==
    [n \in 1..Len(d) |-> IF HasBit(d[n], DQ_BAD_TIME) THEN 1 ELSE 0]

\* recomputeExptime: iflag, 1 where the bad time flag or the burst flag is set
IFlag(d) ==
    [n \in 1..Len(d) |->
        IF HasBit(d[n], DQ_BAD_TIME) \/ HasBit(d[n], DQ_BURST) THEN 1 ELSE 0]

\* the loop over the changes of iflag, n the 0-based index of dflag; -1 is None
RECURSIVE GtiIndicesLoop(_, _, _)
GtiIndicesLoop(st, n, iflag) ==
    IF n > Len(iflag) - 2 THEN st
    ELSE LET dflag == iflag[n + 2] - iflag[n + 1]
         IN  GtiIndicesLoop(
                 IF dflag > 0
                 THEN [st EXCEPT !.it_end = n,
                                 !.gti_indices =
                                     Append(st.gti_indices, <<st.it_begin, n>>)]
                 ELSE IF dflag < 0
                 THEN [st EXCEPT !.it_begin = n + 1, !.it_end = -1]
                 ELSE st,
                 n + 1, iflag)

\* lines 947-964: the 0-based [it_begin, it_end] of the good intervals
GtiIndices(d) ==
    LET iflag == IFlag(d)
        st == GtiIndicesLoop(
                  [it_begin |-> IF iflag[1] = 0 THEN 0 ELSE -1,
                   it_end |-> -1, gti_indices |-> <<>>], 0, iflag)
    IN  IF st.it_end = -1 /\ st.it_begin # -1
        THEN Append(st.gti_indices, <<st.it_begin, Len(d) - 1>>)
        ELSE st.gti_indices

\* lines 966-970: the good time intervals of the DQ column
DqGTI(ev_time, d) ==
    LET ind == GtiIndices(d)
    IN  [k \in 1..Len(ind) |->
            <<ev_time[ind[k][1] + 1], ev_time[ind[k][2] + 1]>>]

\* lines 967-979: the good time intervals of the DQ column, merged with the
\* first GTI table and rounded
NewGTI(ev_time, d, fgti) == RoundGTI(MergeGTI(fgti, DqGTI(ev_time, d)))

RECURSIVE SumGTI(_, _)
SumGTI(g, k) ==
    IF k > Len(g) THEN 0 ELSE (g[k][2] - g[k][1]) + SumGTI(g, k + 1)

\* Exptime that adds up nothing but the first interval
ExptimeOfFirst(g) == IF Len(g) = 0 THEN 0 ELSE g[1][2] - g[1][1]

\* lines 981-983
Exptime(g) == SumGTI(g, 1)

\* UpdateExptime that leaves EXPTIME alone for FUV
UpdateExptimeSegmentOnly(f, exptime) ==
    IF f.detector = "FUV"
    THEN IF f.segment = "FUVA"
         THEN [f.exptime EXCEPT !.exptimea = exptime]
         ELSE [f.exptime EXCEPT !.exptimeb = exptime]
    ELSE [f.exptime EXCEPT !.exptime = exptime]

\* lines 985-995: the keywords of the EVENTS header after the update
UpdateExptime(f, exptime) ==
    IF f.detector = "FUV"
    THEN IF f.segment = "FUVA"
         THEN [f.exptime EXCEPT !.exptimea = exptime, !.exptime = exptime]
         ELSE [f.exptime EXCEPT !.exptimeb = exptime, !.exptime = exptime]
    ELSE [f.exptime EXCEPT !.exptime = exptime]

\* recomputeExptime: the file after it; the list it returns is NewGTI
RecomputeExptime(f, ev_time, d, fgti) ==
    [f EXCEPT !.exptime = UpdateExptime(f, Exptime(NewGTI(ev_time, d, fgti)))]

\* SaveNewGTI that replaces the last GTI table whatever its EXTVER
SaveNewGTIAlwaysInPlace(f, hdu, g) ==
    IF hdu # 0
    THEN [f EXCEPT !.gtis[hdu] = [extver |-> f.gtis[hdu].extver, rows |-> g]]
    ELSE LET app == [f EXCEPT !.gtis = Append(f.gtis,
                                   [extver |-> 1, rows |-> g])]
         IN  [app EXCEPT !.nextend = NumExtensions(app)]

\* SaveNewGTI that appends a table whatever the EXTVER of the last one
SaveNewGTIAlwaysAppend(f, hdu, g) ==
    LET extver == IF hdu = 0 THEN 1 ELSE f.gtis[hdu].extver + 1
        app == [f EXCEPT !.gtis = Append(f.gtis,
                              [extver |-> extver, rows |-> g])]
    IN  [app EXCEPT !.nextend = NumExtensions(app)]

\* saveNewGTI; hdu is the place of the last GTI table found when the file
\* was opened
SaveNewGTI(f, hdu, g) ==
    IF hdu # 0 /\ f.gtis[hdu].extver > 1
    THEN [f EXCEPT !.gtis[hdu] = [extver |-> f.gtis[hdu].extver, rows |-> g]]
    ELSE LET extver == IF hdu = 0 THEN 1 ELSE f.gtis[hdu].extver + 1
             app == [f EXCEPT !.gtis = Append(f.gtis,
                                   [extver |-> extver, rows |-> g])]
         IN  [app EXCEPT !.nextend = NumExtensions(app)]

\* ClearDqFlag that copies the EXTVER of the table before the last one too
ClearDqFlagCopiesExtver(f) ==
    LET cleared == [f EXCEPT
                      !.dq = [n \in 1..Len(f.dq) |->
                                 ClearBit(f.dq[n], DQ_BAD_TIME)],
                      !.history = Append(f.history,
                                    [what |-> "cleared", filter |-> <<>>])]
        ngti == Len(f.gtis)
    IN  IF ngti > 1
        THEN LET last == GtiList(f)[ngti]
                 prev == GtiList(f)[ngti - 1]
             IN  [cleared EXCEPT !.gtis[last] = f.gtis[prev]]
        ELSE cleared

\* clearDqFlag, lines 638-659: the file after the flag is cleared, the history
\* added and the last GTI table overwritten with the one before it
ClearDqFlag(f) ==
    LET cleared == [f EXCEPT
                      !.dq = [n \in 1..Len(f.dq) |->
                                 ClearBit(f.dq[n], DQ_BAD_TIME)],
                      !.history = Append(f.history,
                                    [what |-> "cleared", filter |-> <<>>])]
        ngti == Len(f.gtis)
    IN  IF ngti > 1
        THEN LET last == GtiList(f)[ngti]
                 prev == GtiList(f)[ngti - 1]
             IN  [cleared EXCEPT !.gtis[last] =
                     [extver |-> f.gtis[last].extver,
                      rows |-> f.gtis[prev].rows]]
        ELSE cleared

\* getFirstGTI
GetFirstGTI(f) == f.gtis[FirstGtiHdu(f)].rows

\* setDqFlag as a whole, on the open file f with self.filter = flt: the file
\* in memory after it, when no error is raised
SetDqFlag(f, flt, fstr) ==
    LET fl == FoldFlags(EvalGroups(flt, f.tl).flags)
        st == ExtractIntervals(fl, f.tl.time, f.time, f.dq)
        flagged == [f EXCEPT !.dq = st.dq,
                             !.history = Append(f.history,
                                 [what |-> "flagged", filter |-> fstr])]
    IN  SaveNewGTI(RecomputeExptime(flagged, f.time, st.dq, GetFirstGTI(f)),
                   GtiHdu(f), NewGTI(f.time, st.dq, GetFirstGTI(f)))

\* whether TimelineFilter(input, None, fstr) on the file f is a Filter run
\* that raises no error
FilterRunEnds(f, fstr) ==
    /\ InterpretFilter(fstr).err = ""
    /\ Dispatch(InterpretFilter(fstr).filter) = "setDqFlag"
    /\ OpenAbort(f, NoOutput, NoFile) = ""
    /\ f.n_timeline # 0
    /\ EvalGroups(InterpretFilter(fstr).filter, f.tl).err = ""

\* TimelineFilter(input, None, fstr): the input file after a Filter run in
\* place that raises no error
FilterRun(f, fstr) == SetDqFlag(f, InterpretFilter(fstr).filter, fstr)

\* ------------------------------------------------------------------------
\* The filter strings of the model
\* ------------------------------------------------------------------------

UpperChar(c) ==
    IF \E k \in 1..Len(LowerChars) : LowerChars[k] = c
    THEN UpperChars[CHOOSE k \in 1..Len(LowerChars) : LowerChars[k] = c]
    ELSE c

UpperStr(s) == [k \in 1..Len(s) |-> UpperChar(s[k])]

Capitalized(s) == [k \in 1..Len(s) |-> IF k = 1 THEN UpperChar(s[k]) ELSE s[k]]

Phrases ==
    { <<>>, <<"a">>, <<">">>, <<"1">>, <<"x">>, <<"=",">">>,
      <<"a"," ",">"," ","1">>,
      <<"b"," ","<","="," ","-","0",".","5">>,
      <<"s","a","a">>, <<"s","a","a"," ","5">>,
      <<"a","n","d">>, <<"O","R">> }

RECURSIVE JoinedPhrases(_)
JoinedPhrases(n) ==
    IF n = 1 THEN Phrases
    ELSE JoinedPhrases(n - 1)
         \cup { p \o <<" ">> \o q : p \in JoinedPhrases(n - 1), q \in Phrases }

\* a condition with each relation symbol, known or not
RelationStrings ==
    { <<"c"," ">> \o r \o <<" ","2">> :
        r \in { <<">">>, <<">","=">>, <<"<">>, <<"<","=">>, <<"=","=">>,
                <<"=">>, <<"!","=">>, <<"<",">">>, <<"!">>, <<"=","<">> } }
    \cup { <<"X","o","R">>, <<"S","A","A"," ","+","3">>,
           <<"s","a","a"," ","1",".","5">>, <<"c"," ",">"," ","2",".">>,
           <<"c"," ",">"," ",".">>, <<"c"," ",">"," ","-">> }

ModeSuffixes == { <<>>, <<"x">>, <<" ">>, <<" ",">"," ","1">> }

ModeStrings ==
    { c \o s : c \in UNION { { Take(information, n),
                                Capitalized(Take(information, n)),
                                UpperStr(Take(information, n)) } :
                              n \in 0..Len(information) },
               s \in ModeSuffixes }
    \cup { c \o s : c \in { W_clear, UpperStr(W_clear), Capitalized(W_reset),
                            W_reset, Take(W_clear, 3), Take(W_reset, 4) },
                    s \in ModeSuffixes }
    \cup { <<" ">> \o W_clear }

FilterStrings ==
    {NoneStr} \cup JoinedPhrases(MaxPhrases) \cup RelationStrings
    \cup ModeStrings

\* ------------------------------------------------------------------------
\* The variables a specification leaves alone
\* ------------------------------------------------------------------------

ParseIdle ==
    /\ filter_str = NoneStr
    /\ words = <<>>
    /\ i = 0

EvalIdle ==
    /\ timeline = NoTimeline
    /\ flags = <<>>
    /\ flag = <<>>

GtiIdle ==
    /\ first_gti = <<>>
    /\ second_gti = <<>>
    /\ gti = <<>>

FlagIdle ==
    /\ events_time = <<>>
    /\ dq = <<>>
    /\ bad_time_intervals = <<>>
    /\ in_bad_interval = FALSE

SaaIdle ==
    /\ saa_models = <<>>
    /\ model_number = 0
    /\ saa_result = [err |-> "", v |-> <<>>]
    /\ model_vertices = <<>>
    /\ closed_loops = {}
    /\ lookups = 0

RecIdle == gti_indices = <<>>

OrderIdle ==
    /\ file_0 = NoFile
    /\ filter_a = NoneStr
    /\ filter_b = NoneStr
    /\ file_a = NoFile
    /\ file_b = NoFile
    /\ file_ab = NoFile
    /\ file_ba = NoFile

WithinIdle ==
    /\ contour_model = 0
    /\ contour = <<>>
    /\ hst_longitude = 0
    /\ hst_latitude = 0
    /\ saa_flag = FALSE

FileIdle ==
    /\ runs = 0
    /\ output = NoOutput
    /\ disk = NoFile
    /\ outfile = NoFile
    /\ fd = NoFile
    /\ abort = ""
    /\ original = NoFile
    /\ source_before = NoFile
    /\ output_before = NoFile
    /\ log = <<>>

\* ------------------------------------------------------------------------
\* interpretFilter, step by step
\* ------------------------------------------------------------------------

InitParse ==
    /\ filter_str \in FilterStrings
    /\ filter = <<>>
    /\ words = <<>>
    /\ i = 0
    /\ pc = "start"
    /\ EvalIdle
    /\ GtiIdle
    /\ FlagIdle
    /\ FileIdle
    /\ SaaIdle
    /\ WithinIdle
    /\ RecIdle
    /\ OrderIdle

\* lines 454-480: the two modes, the empty filter, or the start of the loop
PInterpret ==
    /\ pc = "start"
    /\ LET head == InterpretHead(filter_str)
       IN  /\ filter' = (CASE head = "info" -> <<ModeTok("info")>>
                           [] head = "clear" -> <<ModeTok("clear")>>
                           [] OTHER -> <<>>)
           /\ words' = IF head = "loop" THEN Split(filter_str) ELSE <<>>
           /\ pc' = IF head = "loop" THEN "loop" ELSE "done"
    /\ i' = 0
    /\ UNCHANGED <<filter_str, evalVars, gtiVars, flagVars,
                   runVars, saaVars,
                   withinVars, recVars,
                   orderVars>>

\* lines 486-533: one pass through the loop body
PLoopStep ==
    /\ pc = "loop"
    /\ i < Len(words)
    /\ LET r == LoopStep(words, i, filter)
       IN  /\ filter' = r.filter
           /\ i' = r.i
           /\ pc' = IF r.err # "" THEN "error" ELSE "loop"
    /\ UNCHANGED <<filter_str, words, evalVars, gtiVars, flagVars,
                   runVars, saaVars,
                   withinVars, recVars,
                   orderVars>>

\* lines 482-484: every word is consumed
PLoopEnd ==
    /\ pc = "loop"
    /\ i >= Len(words)
    /\ pc' = "done"
    /\ UNCHANGED <<parseVars, evalVars, gtiVars, flagVars,
                   runVars, saaVars,
                   withinVars, recVars,
                   orderVars>>

NextParse == PInterpret \/ PLoopStep \/ PLoopEnd

SpecParse == InitParse /\ [][NextParse]_vars

\* interpretFilter runs on: a call returns or raises
SpecParseFair == SpecParse /\ WF_vars(NextParse)

\* ------------------------------------------------------------------------
\* The evaluation of a parsed filter, loop by loop
\* ------------------------------------------------------------------------

\* the largest number of conditions in a filter that is evaluated
MaxConds == 3

CondColumns == << <<"a">>, <<"b">>, <<"c">> >>

CondRelations == <<"greater", "less", "greater", "less_equal", "not_equal">>

\* the condition at place k of a filter: "a > 0", "b < 0", "c > 0", "a <= 0", ...
CondAt(k) ==
    CondTok(CondColumns[((k - 1) % Len(CondColumns)) + 1],
            CondRelations[((k - 1) % Len(CondRelations)) + 1], 0)

Conjunctions == {AND, OR, XOR}

\* the filters of n conditions with one conjunction between neighbours
RECURSIVE Alternating(_)
Alternating(n) ==
    IF n = 1 THEN { <<CondAt(1)>> }
    ELSE { f \o <<ConjTok(c), CondAt(n)>> :
             f \in Alternating(n - 1), c \in Conjunctions }

\* those, those with a conjunction after the last condition, and a few that
\* begin with a conjunction, hold two in a row or end with two or three
EvalFilters ==
    LET wf == UNION { Alternating(n) : n \in 1..MaxConds }
    IN  wf \cup { f \o <<ConjTok(c)>> : f \in wf, c \in Conjunctions }
           \cup { <<ConjTok(c), CondAt(1)>> : c \in Conjunctions }
           \cup { <<CondAt(1), ConjTok(OR), ConjTok(c), CondAt(2)>> :
                    c \in Conjunctions }
           \cup { <<CondAt(1), CondAt(2)>> }
           \cup { <<CondAt(1), ConjTok(c), ConjTok(d)>> :
                    c \in Conjunctions, d \in Conjunctions }
           \cup { <<CondAt(1), ConjTok(OR), ConjTok(AND), ConjTok(c)>> :
                    c \in Conjunctions }

ColumnValues ==
    { <<10, 10>>, <<10, -10>>, <<-10, 10>>, <<-10, -10>>, <<0, 10>>,
      <<-10, 0>> }

EvalTimelines ==
    { [time |-> <<0, 3000>>, a |-> va, b |-> vb, c |-> vc,
       within |-> <<{}, {}>>] :
        va \in ColumnValues, vb \in ColumnValues, vc \in ColumnValues }

InitEval ==
    /\ pc = "groups"
    /\ filter \in EvalFilters
    /\ timeline \in EvalTimelines
    /\ flags = <<>>
    /\ flag = <<>>
    /\ ParseIdle
    /\ GtiIdle
    /\ FlagIdle
    /\ FileIdle
    /\ SaaIdle
    /\ WithinIdle
    /\ RecIdle
    /\ OrderIdle

\* lines 705-743: the first loop, which combines conditions joined by "and"
EGroups ==
    /\ pc = "groups"
    /\ LET r == EvalGroups(filter, timeline)
       IN  /\ flags' = r.flags
           /\ pc' = IF r.err # "" THEN "error" ELSE "fold"
    /\ UNCHANGED <<parseVars, timeline, flag, gtiVars, flagVars,
                   runVars, saaVars,
                   withinVars, recVars,
                   orderVars>>

\* lines 746-759: the second loop, which combines the groups by "or" and "xor"
EFold ==
    /\ pc = "fold"
    /\ flag' = FoldFlags(flags)
    /\ pc' = "evaluated"
    /\ UNCHANGED <<parseVars, timeline, flags, gtiVars, flagVars,
                   runVars, saaVars,
                   withinVars, recVars,
                   orderVars>>

NextEval == EGroups \/ EFold

SpecEval == InitEval /\ [][NextEval]_vars

\* ------------------------------------------------------------------------
\* The merge of two lists of good time intervals
\* ------------------------------------------------------------------------

\* the latest time of the lists that are merged
MaxGtiTime == 3

GtiIntervals ==
    { <<t0, t1>> : t0 \in 0..MaxGtiTime, t1 \in 0..MaxGtiTime }
      \ { <<t0, t1>> \in (0..MaxGtiTime) \X (0..MaxGtiTime) : t1 < t0 }

\* the lists of at most two intervals, in any order, and the lists of the
\* two scenarios of the specification
GtiLists ==
    { <<>> } \cup { <<x>> : x \in GtiIntervals }
             \cup { <<x, y>> : x \in GtiIntervals, y \in GtiIntervals }
             \cup { << <<0, 100>> >>, << <<10, 40>>, <<60, 90>> >>,
                    << <<-5, 40>> >> }

InitGti ==
    /\ pc = "merge"
    /\ first_gti \in GtiLists
    /\ second_gti \in GtiLists
    /\ gti = <<>>
    /\ filter = <<>>
    /\ ParseIdle
    /\ EvalIdle
    /\ FlagIdle
    /\ FileIdle
    /\ SaaIdle
    /\ WithinIdle
    /\ RecIdle
    /\ OrderIdle

\* line 977: gti = self.mergeGTI(self.first_gti, gti)
GMerge ==
    /\ pc = "merge"
    /\ gti' = MergeGTI(first_gti, second_gti)
    /\ pc' = "round"
    /\ UNCHANGED <<parseVars, evalVars, first_gti, second_gti, flagVars,
                   runVars, saaVars,
                   withinVars, recVars,
                   orderVars>>

\* line 979: gti = self.roundGTI(gti, precision=3)
GRound ==
    /\ pc = "round"
    /\ gti' = RoundGTI(gti)
    /\ pc' = "rounded"
    /\ UNCHANGED <<parseVars, evalVars, first_gti, second_gti, flagVars,
                   runVars, saaVars,
                   withinVars, recVars,
                   orderVars>>

NextGti == GMerge \/ GRound

SpecGti == InitGti /\ [][NextGti]_vars

\* ------------------------------------------------------------------------
\* recomputeExptime: the list of good time intervals, step by step
\* ------------------------------------------------------------------------

\* the largest number of events
MaxRecEvents == 3

\* the latest time of an event and of the first GTI table
MaxRecTime == 3

\* a GTI table: stop >= start in every row, rows ascending, none overlapping
IsGtiTable(g) ==
    /\ \A k \in 1..Len(g) : g[k][1] <= g[k][2]
    /\ \A k \in 1..(Len(g) - 1) : g[k][2] <= g[k + 1][1]

\* the TIME columns: ascending, repeats allowed
RecEventTimes ==
    UNION { { t \in [1..n -> 0..MaxRecTime] :
                \A k \in 1..(n - 1) : t[k] <= t[k + 1] } :
            n \in 1..MaxRecEvents }

\* the DQ values: no flag, the burst flag, the bad time flag
RecDqValues == {0, DQ_BURST, DQ_BAD_TIME}

\* the first GTI tables: at most two rows, with times up to MaxRecTime
RecInterval == { iv \in (0..MaxRecTime) \X (0..MaxRecTime) : iv[1] <= iv[2] }

RecGtiTables ==
    { g \in { <<>> } \cup { <<x>> : x \in RecInterval }
                     \cup { <<x, y>> : x \in RecInterval, y \in RecInterval } :
        IsGtiTable(g) }

InitRecompute ==
    /\ pc = "indices"
    /\ events_time \in RecEventTimes
    /\ dq \in [1..Len(events_time) -> RecDqValues]
    /\ first_gti \in RecGtiTables
    /\ gti_indices = <<>>
    /\ second_gti = <<>>
    /\ gti = <<>>
    /\ bad_time_intervals = <<>>
    /\ in_bad_interval = FALSE
    /\ filter = <<>>
    /\ ParseIdle
    /\ EvalIdle
    /\ SaaIdle
    /\ WithinIdle
    /\ OrderIdle
    /\ FileIdle

\* lines 922-970: gti_indices, and gti, the list found from the DQ column
CGtiFromDq ==
    /\ pc = "indices"
    /\ gti_indices' = GtiIndices(dq)
    /\ second_gti' = DqGTI(events_time, dq)
    /\ pc' = "merge"
    /\ UNCHANGED <<parseVars, evalVars, first_gti, gti, flagVars, runVars,
                   saaVars, withinVars, orderVars>>

NextRecompute == CGtiFromDq \/ GMerge \/ GRound

SpecRecompute == InitRecompute /\ [][NextRecompute]_vars

\* ------------------------------------------------------------------------
\* The extraction of the bad time intervals from a mask
\* ------------------------------------------------------------------------

\* the largest number of rows of the TIMELINE table
MaxRows == 3

\* the number of events
NEvents == 3

\* the TIME column of n rows that starts at t0: one row every 3 units
TimeColumn(n, t0) == [k \in 1..n |-> t0 + 3 * (k - 1)]

ExtractTimelines ==
    { [time |-> TimeColumn(n, t0), a |-> TimeColumn(n, 0),
       b |-> TimeColumn(n, 0), c |-> TimeColumn(n, 0),
       within |-> [k \in 1..n |-> {}]] : n \in 1..MaxRows, t0 \in {0, 3} }

Masks(n) == [1..n -> BOOLEAN]

\* the times an event may have
EventTimePoints == {0, 1, 3, 4, 6, 7, 9, 10}

\* the TIME columns of the EVENTS table: ascending, repeats allowed
EventTimes ==
    { t \in [1..NEvents -> EventTimePoints] :
        \A n \in 1..(NEvents - 1) : t[n] <= t[n + 1] }

\* DQ columns: no flag, and a mix of flags
DqColumns ==
    { [n \in 1..NEvents |-> 0],
      [n \in 1..NEvents |->
          IF n % 3 = 1 THEN DQ_BURST + 8
          ELSE IF n % 3 = 2 THEN DQ_BAD_TIME ELSE 0] }

\* the TIMELINE table of six rows, the mask with a run at each end and the
\* TIME columns of the events that end at the time of the last row
GridTimeline ==
    [time |-> TimeColumn(6, 0), a |-> TimeColumn(6, 0), b |-> TimeColumn(6, 0),
     c |-> TimeColumn(6, 0), within |-> [k \in 1..6 |-> {}]]

GridMask == <<TRUE, FALSE, FALSE, FALSE, TRUE, TRUE>>

GridEventTimes ==
    { t \in [1..NEvents -> {1, 3, 13, 15}] :
        /\ \A n \in 1..(NEvents - 1) : t[n] <= t[n + 1]
        /\ t[NEvents] = 15 }

InitExtract ==
    /\ pc = "extract"
    /\ \/ /\ timeline \in ExtractTimelines
          /\ flag \in Masks(Len(timeline.time))
          /\ events_time \in EventTimes
       \/ /\ timeline = GridTimeline
          /\ flag = GridMask
          /\ events_time \in GridEventTimes
    /\ flags = <<>>
    /\ dq \in DqColumns
    /\ bad_time_intervals = <<>>
    /\ in_bad_interval = FALSE
    /\ filter = <<>>
    /\ ParseIdle
    /\ GtiIdle
    /\ FileIdle
    /\ SaaIdle
    /\ WithinIdle
    /\ RecIdle
    /\ OrderIdle

\* lines 765-789: the loop over the rows and the interval open at its end
XExtract ==
    /\ pc = "extract"
    /\ LET st == ExtractIntervals(flag, timeline.time, events_time, dq)
       IN  /\ dq' = st.dq
           /\ bad_time_intervals' = st.bad_time_intervals
           /\ in_bad_interval' = st.in_bad_interval
    /\ pc' = "extracted"
    /\ UNCHANGED <<parseVars, evalVars, gtiVars, events_time,
                   runVars, saaVars,
                   withinVars, recVars,
                   orderVars>>

NextExtract == XExtract

SpecExtract == InitExtract /\ [][NextExtract]_vars

\* ------------------------------------------------------------------------
\* Calls of saamodel.saaModel by saaFilter
\* ------------------------------------------------------------------------

\* the largest number of calls of saaModel
MaxLookups == 2

\* the model numbers of the calls: those saaModel knows, and some it does not
SaaIds == (SaaModelMin - 2)..(SaaModelMax + 2)

InitSaa ==
    /\ pc = "saa_call"
    /\ SaaIdle
    /\ WithinIdle
    /\ RecIdle
    /\ OrderIdle
    /\ filter = <<>>
    /\ ParseIdle
    /\ EvalIdle
    /\ GtiIdle
    /\ FlagIdle
    /\ FileIdle

\* line 832: model_vertices = saamodel.saaModel(model)
SaaLookup ==
    /\ pc \in {"saa_call", "saa_returned", "saa_error", "saa_closed"}
    /\ lookups < MaxLookups
    /\ lookups' = lookups + 1
    /\ model_number' \in SaaIds
    /\ saa_models' = SaaModelsAtCall(saa_models)
    /\ saa_result' = SaaModel(saa_models', model_number')
    /\ model_vertices' = saa_result'.v
    /\ pc' = IF saa_result'.err # "" THEN "saa_error" ELSE "saa_returned"
    /\ UNCHANGED <<parseVars, evalVars, gtiVars, flagVars, runVars,
                   closed_loops, withinVars, recVars,
                   orderVars>>

\* line 833: model_vertices.append(model_vertices[0]); the list is the one
\* in the dictionary
SaaCloseLoop ==
    /\ pc = "saa_returned"
    /\ model_vertices' = Append(model_vertices, model_vertices[1])
    /\ saa_models' = [saa_models EXCEPT ![model_number] = model_vertices']
    /\ closed_loops' = closed_loops \cup {model_number}
    /\ pc' = "saa_closed"
    /\ UNCHANGED <<parseVars, evalVars, gtiVars, flagVars, runVars, model_number,
                   saa_result, lookups, withinVars, recVars,
                   orderVars>>

NextSaa == SaaLookup \/ SaaCloseLoop

SpecSaa == InitSaa /\ [][NextSaa]_vars

\* ------------------------------------------------------------------------
\* saaFilter on a square contour: one row of the TIMELINE table
\* ------------------------------------------------------------------------

\* half the side of the square, in steps of 5 degrees
SquareHalfSide == 2

\* the largest latitude of HST, in steps of 5 degrees
MaxLatitude == 6

\* the square around longitude 10, latitude 0, as a list of (latitude,
\* longitude) in degrees, and the same vertices in the other direction
Square(h) ==
    << <<-h, 10 - h>>, <<-h, 10 + h>>, <<h, 10 + h>>, <<h, 10 - h>> >>

SquareReversed(h) ==
    << <<h, 10 - h>>, <<h, 10 + h>>, <<-h, 10 + h>>, <<-h, 10 - h>> >>

Contours == {Square(5 * SquareHalfSide), SquareReversed(5 * SquareHalfSide)}

\* the model numbers on both sides of the test "model > 1"
ContourModels == {0, 2}

HstLongitudes == { 5 * k : k \in 0..71 }

HstLatitudes == { 5 * k : k \in -MaxLatitude..MaxLatitude }

InitWithin ==
    /\ pc = "within_call"
    /\ contour_model \in ContourModels
    /\ contour \in Contours
    /\ hst_longitude \in HstLongitudes
    /\ hst_latitude \in HstLatitudes
    /\ saa_flag = FALSE
    /\ filter = <<>>
    /\ ParseIdle
    /\ EvalIdle
    /\ GtiIdle
    /\ FlagIdle
    /\ SaaIdle
    /\ RecIdle
    /\ OrderIdle
    /\ FileIdle

\* lines 833-855, for the row k of the TIMELINE table
WTest ==
    /\ pc = "within_call"
    /\ saa_flag' = WithinContour(contour_model, contour, hst_longitude,
                                 hst_latitude)
    /\ pc' = "tested"
    /\ UNCHANGED <<parseVars, evalVars, gtiVars, flagVars, runVars,
                   saaVars, contour_model, contour, hst_longitude,
                   hst_latitude, recVars,
                   orderVars>>

NextWithin == WTest

SpecWithin == InitWithin /\ [][NextWithin]_vars

\* ------------------------------------------------------------------------
\* TimelineFilter(input, output, filter): runs on one input file
\* ------------------------------------------------------------------------

\* the largest number of runs
MaxRuns == 2

\* the filter strings of the runs: None, "", "info", "clear", "a > 0",
\* "b < 0 or saa 5", "saa 99", "x > 1", "a >"
RunFilters ==
    { NoneStr, <<>>, <<"i","n","f","o">>, W_clear,
      <<"a"," ",">"," ","0">>,
      <<"b"," ","<"," ","0"," ","o","r"," ","s","a","a"," ","5">>,
      <<"s","a","a"," ","9","9">>,
      <<"x"," ",">"," ","1">>,
      <<"a"," ",">">> }

OutputName == "output.fits"

RunOutputs == {NoOutput, OutputName}

RunTimeline ==
    [time |-> <<0, 3, 6>>, a |-> <<10, -10, 10>>, b |-> <<-10, -10, 10>>,
     c |-> <<0, 0, 0>>, within |-> <<{5}, {}, {}>>]

\* a corrtag file with one EVENTS table of three events, one TIMELINE table
\* and one GTI table
BaseFile ==
    [exists |-> TRUE, filename |-> "input.fits", history |-> <<>>,
     nextend |-> 3, detector |-> "FUV", segment |-> "FUVA",
     n_events |-> 1, n_timeline |-> 1,
     time |-> <<1, 4, 7>>, dq |-> <<0, 0, 0>>,
     exptime |-> [exptime |-> 9, exptimea |-> 9, exptimeb |-> 0],
     tl |-> RunTimeline, columns |-> InfoColumns,
     gtis |-> << [extver |-> 1, rows |-> << <<0, 9>> >>] >>]

WithGtis(f, g) == [f EXCEPT !.gtis = g, !.nextend = 2 + Len(g)]

\* the base file and files that differ from it in one respect: the DQ column,
\* the GTI tables, the detector, the number of EVENTS and TIMELINE tables
InputFiles ==
    { BaseFile,
      [BaseFile EXCEPT !.dq = <<DQ_BURST, 8, 0>>],
      [BaseFile EXCEPT !.dq = <<0, DQ_BAD_TIME + 8, DQ_BAD_TIME>>],
      [BaseFile EXCEPT !.detector = "NUV", !.segment = "N/A"],
      [BaseFile EXCEPT !.segment = "FUVB", !.time = <<1, 2, 4, 5, 8>>,
                       !.dq = <<0, DQ_BURST, 0, 0, 0>>],
      WithGtis(BaseFile, <<>>),
      WithGtis(BaseFile, << [extver |-> 1, rows |-> << <<0, 9>> >>],
                            [extver |-> 2, rows |-> << <<3, 9>> >>] >>),
      WithGtis(BaseFile, << [extver |-> 2, rows |-> << <<3, 9>> >>],
                            [extver |-> 1, rows |-> << <<0, 6>> >>] >>),
      WithGtis(BaseFile, << [extver |-> 2, rows |-> << <<0, 9>> >>] >>),
      WithGtis(BaseFile, << [extver |-> 1, rows |-> << <<0, 9>> >>],
                            [extver |-> 1, rows |-> << <<3, 9>> >>] >>),
      [BaseFile EXCEPT !.n_events = 0, !.nextend = 2, !.time = <<>>,
                       !.dq = <<>>],
      [BaseFile EXCEPT !.n_events = 2, !.nextend = 4],
      [BaseFile EXCEPT !.n_timeline = 0, !.nextend = 2, !.tl = NoTimeline,
                       !.columns = {}],
      [BaseFile EXCEPT !.columns = InfoColumns \ {"darkrate"}],
      [BaseFile EXCEPT !.n_timeline = 2, !.nextend = 4] }

\* the variables of self that a run leaves as they are at construction
RunIdle ==
    /\ filter = <<>>
    /\ words = <<>>
    /\ i = 0
    /\ EvalIdle
    /\ GtiIdle
    /\ FlagIdle
    /\ fd = NoFile
    /\ abort = ""

Init ==
    /\ pc = "ready"
    /\ runs = 0
    /\ filter_str = NoneStr
    /\ output = NoOutput
    /\ disk \in InputFiles
    /\ outfile \in {NoFile, BaseFile}
    /\ original = disk
    /\ source_before = disk
    /\ output_before = outfile
    /\ log = <<>>
    /\ RunIdle
    /\ SaaIdle
    /\ WithinIdle
    /\ RecIdle
    /\ OrderIdle

\* lines 389-398: a run starts
RStart ==
    /\ pc \in {"ready", "closed", "aborted"}
    /\ runs < MaxRuns
    /\ runs' = runs + 1
    /\ filter_str' \in RunFilters
    /\ output' \in RunOutputs
    /\ source_before' = disk
    /\ output_before' = outfile
    /\ filter' = <<>>
    /\ words' = <<>>
    /\ i' = 0
    /\ timeline' = NoTimeline
    /\ flags' = <<>>
    /\ flag' = <<>>
    /\ first_gti' = <<>>
    /\ second_gti' = <<>>
    /\ gti' = <<>>
    /\ events_time' = <<>>
    /\ dq' = <<>>
    /\ bad_time_intervals' = <<>>
    /\ in_bad_interval' = FALSE
    /\ fd' = NoFile
    /\ abort' = ""
    /\ pc' = "interpret"
    /\ UNCHANGED <<disk, outfile, original, log, saaVars,
                   withinVars, recVars,
                   orderVars>>

\* line 399: self.interpretFilter(filter)
RInterpret ==
    /\ pc = "interpret"
    /\ LET r == InterpretFilter(filter_str)
       IN  /\ filter' = r.filter
           /\ abort' = IF r.err # "" THEN "filter" ELSE ""
           /\ pc' = IF r.err # "" THEN "aborted" ELSE "open"
    /\ UNCHANGED <<filter_str, words, i, evalVars, gtiVars, flagVars, runs,
                   output, disk, outfile, fd, original, source_before,
                   output_before, log, saaVars,
                   withinVars, recVars,
                   orderVars>>

\* lines 401-428: the file is opened, the extensions are found
ROpen ==
    /\ pc = "open"
    /\ LET err == OpenAbort(disk, output, outfile)
       IN  /\ abort' = err
           /\ fd' = IF err = "exists" THEN fd ELSE disk
           /\ dq' = IF err \in {"", "no_gti"} THEN disk.dq ELSE dq
           /\ first_gti' = IF err = "" THEN GetFirstGTI(disk) ELSE first_gti
           /\ pc' = IF err # "" THEN "aborted" ELSE Dispatch(filter)
    /\ UNCHANGED <<parseVars, evalVars, second_gti, gti, events_time,
                   bad_time_intervals, in_bad_interval, runs, output, disk,
                   outfile, original, source_before, output_before, log, saaVars,
                   withinVars, recVars,
                   orderVars>>

\* line 431: self.printInfo()
RPrintInfo ==
    /\ pc = "printInfo"
    /\ abort' = PrintInfoAbort(fd)
    /\ pc' = IF abort' # "" THEN "aborted" ELSE "write"
    /\ UNCHANGED <<parseVars, evalVars, gtiVars, flagVars, runs, output, disk,
                   outfile, fd, original, source_before, output_before, log, saaVars,
                   withinVars, recVars,
                   orderVars>>

\* line 433: self.clearDqFlag()
RClearDqFlag ==
    /\ pc = "clearDqFlag"
    /\ LET cleared == ClearDqFlag(fd)
       IN  /\ dq' = cleared.dq
           /\ events_time' = fd.time
           /\ gti' = NewGTI(fd.time, cleared.dq, first_gti)
           /\ fd' = RecomputeExptime(cleared, fd.time, cleared.dq, first_gti)
    /\ pc' = "write"
    /\ UNCHANGED <<parseVars, evalVars, first_gti, second_gti,
                   bad_time_intervals, in_bad_interval, runs, output, disk,
                   outfile, abort, original, source_before, output_before,
                   log, saaVars,
                   withinVars, recVars,
                   orderVars>>

\* setDqFlag, lines 684-760: the checks, and the mask of the filter
RSetDqFlagMask ==
    /\ pc = "setDqFlag"
    /\ IF fd.n_timeline = 0
       THEN /\ abort' = "no_timeline"
            /\ pc' = "aborted"
            /\ UNCHANGED <<events_time, timeline, flags, flag>>
       ELSE LET r == EvalGroups(filter, fd.tl)
            IN  /\ events_time' = fd.time
                /\ timeline' = fd.tl
                /\ flags' = r.flags
                /\ flag' = IF r.err # "" THEN flag ELSE FoldFlags(r.flags)
                /\ abort' = r.err
                /\ pc' = IF r.err # "" THEN "aborted" ELSE "intervals"
    /\ UNCHANGED <<parseVars, gtiVars, dq, bad_time_intervals,
                   in_bad_interval, runs, output, disk, outfile, fd, original,
                   source_before, output_before, log, saaVars,
                   withinVars, recVars,
                   orderVars>>

\* setDqFlag, lines 765-792: the bad time intervals, the flag in the DQ
\* column, the history
RSetDqFlagIntervals ==
    /\ pc = "intervals"
    /\ LET st == ExtractIntervals(flag, timeline.time, events_time, dq)
       IN  /\ dq' = st.dq
           /\ bad_time_intervals' = st.bad_time_intervals
           /\ in_bad_interval' = st.in_bad_interval
           /\ fd' = [fd EXCEPT !.dq = st.dq,
                               !.history = Append(fd.history,
                                   [what |-> "flagged", filter |-> filter_str])]
    /\ pc' = "gti"
    /\ UNCHANGED <<parseVars, evalVars, gtiVars, events_time, runs, output,
                   disk, outfile, abort, original, source_before,
                   output_before, log, saaVars,
                   withinVars, recVars,
                   orderVars>>

\* setDqFlag, lines 796-800: the exposure time and the new GTI table
RSetDqFlagGti ==
    /\ pc = "gti"
    /\ gti' = NewGTI(events_time, dq, first_gti)
    /\ fd' = SaveNewGTI(RecomputeExptime(fd, events_time, dq, first_gti),
                        GtiHdu(source_before), gti')
    /\ pc' = "write"
    /\ UNCHANGED <<parseVars, evalVars, first_gti, second_gti, flagVars, runs,
                   output, disk, outfile, abort, original, source_before,
                   output_before, log, saaVars,
                   withinVars, recVars,
                   orderVars>>

\* lines 437-440: the output file is written, the file is closed
RFinish ==
    /\ pc = "write"
    /\ IF output # NoOutput /\ outfile.exists
       THEN /\ abort' = "exists"
            /\ pc' = "aborted"
            /\ UNCHANGED <<fd, outfile, disk, log>>
       ELSE /\ fd' = IF output # NoOutput
                     THEN [fd EXCEPT !.filename = output] ELSE fd
            /\ outfile' = IF output # NoOutput THEN fd' ELSE outfile
            /\ disk' = IF IoMode(filter, output) = "update" THEN fd' ELSE disk
            /\ log' = IF IoMode(filter, output) = "update"
                      THEN Append(log, Dispatch(filter)) ELSE log
            /\ abort' = abort
            /\ pc' = "closed"
    /\ UNCHANGED <<parseVars, evalVars, gtiVars, flagVars, runs, output,
                   original, source_before, output_before, saaVars,
                   withinVars, recVars,
                   orderVars>>

Next ==
    \/ RStart
    \/ RInterpret
    \/ ROpen
    \/ RPrintInfo
    \/ RClearDqFlag
    \/ RSetDqFlagMask
    \/ RSetDqFlagIntervals
    \/ RSetDqFlagGti
    \/ RFinish

Spec == Init /\ [][Next]_vars

\* ------------------------------------------------------------------------
\* Two Filter runs in place on one file, in both orders
\* ------------------------------------------------------------------------

\* the filter strings of the two runs: "a > 0", "a < 0", "b > 0", "c = 0",
\* "b < 0 or saa 5"
OrderFilters ==
    { <<"a"," ",">"," ","0">>, <<"a"," ","<"," ","0">>,
      <<"b"," ",">"," ","0">>, <<"c"," ","="," ","0">>,
      <<"b"," ","<"," ","0"," ","o","r"," ","s","a","a"," ","5">> }

\* the files on which a Filter run ends
OrderFiles == { f \in InputFiles : \A s \in OrderFilters : FilterRunEnds(f, s) }

InitOrder ==
    /\ pc = "order_first"
    /\ file_0 \in OrderFiles
    /\ filter_a \in OrderFilters
    /\ filter_b \in OrderFilters
    /\ file_a = NoFile
    /\ file_b = NoFile
    /\ file_ab = NoFile
    /\ file_ba = NoFile
    /\ filter = <<>>
    /\ ParseIdle
    /\ EvalIdle
    /\ GtiIdle
    /\ FlagIdle
    /\ SaaIdle
    /\ WithinIdle
    /\ RecIdle
    /\ FileIdle

\* the first run of each order
OFirst ==
    /\ pc = "order_first"
    /\ file_a' = FilterRun(file_0, filter_a)
    /\ file_b' = FilterRun(file_0, filter_b)
    /\ pc' = "order_second"
    /\ UNCHANGED <<parseVars, evalVars, gtiVars, flagVars, runVars, saaVars,
                   withinVars, recVars, file_0, filter_a, filter_b, file_ab,
                   file_ba>>

\* the second run of each order
OSecond ==
    /\ pc = "order_second"
    /\ FilterRunEnds(file_a, filter_b)
    /\ FilterRunEnds(file_b, filter_a)
    /\ file_ab' = FilterRun(file_a, filter_b)
    /\ file_ba' = FilterRun(file_b, filter_a)
    /\ pc' = "order_done"
    /\ UNCHANGED <<parseVars, evalVars, gtiVars, flagVars, runVars, saaVars,
                   withinVars, recVars, file_0, filter_a, filter_b, file_a,
                   file_b>>

NextOrder == OFirst \/ OSecond

SpecOrder == InitOrder /\ [][NextOrder]_vars

\* ------------------------------------------------------------------------
\* Properties of interpretFilter
\* ------------------------------------------------------------------------

\* the mode self.filter stands for once interpretFilter has decided
SelectedMode ==
    IF filter = <<ModeTok("info")>> THEN "info"
    ELSE IF filter = <<ModeTok("clear")>> THEN "clear"
    ELSE "parse"

IsPrefixOf(s, t) == Len(s) <= Len(t) /\ \A k \in 1..Len(s) : s[k] = t[k]

\* C8 (the claim as stated): a missing (None) or empty filter selects Info
\* mode.
C8_MissingOrEmptySelectsInfo ==
    (pc = "done" /\ (filter_str = NoneStr \/ filter_str = <<>>))
        => SelectedMode = "info"

\* C9 (the claim as stated): for a non-empty str, Clear mode is selected
\* exactly for "clear" and "reset" ignoring case, Info mode exactly for the
\* prefixes of "information" of at least 4 characters ignoring case, and
\* every other string is parsed as conditions.
C9_InfoExactlyForPrefixes ==
    (pc # "start" /\ filter_str # NoneStr /\ Len(filter_str) > 0)
        => /\ (SelectedMode = "clear")
                <=> (LowerStr(filter_str) \in {W_clear, W_reset})
           /\ (SelectedMode = "info")
                <=> (/\ Len(filter_str) >= 4
                     /\ IsPrefixOf(LowerStr(filter_str), information))

\* C9 (amended): as above, but Info mode is selected also for every string
\* that begins with "information" ignoring case, whatever follows it.
C9_InfoForPrefixesAndExtensions ==
    (pc # "start" /\ filter_str # NoneStr /\ Len(filter_str) > 0)
        => /\ (SelectedMode = "clear")
                <=> (LowerStr(filter_str) \in {W_clear, W_reset})
           /\ (SelectedMode = "info")
                <=> (\/ /\ Len(filter_str) >= 4
                        /\ IsPrefixOf(LowerStr(filter_str), information)
                     \/ IsPrefixOf(information, LowerStr(filter_str)))
           /\ (SelectedMode = "parse" /\ pc = "loop")
                => words = Split(filter_str)

\* C9 witness: a string longer than "information" that begins with it has
\* selected Info mode
C9_Witness ==
    /\ pc = "done"
    /\ filter_str # NoneStr
    /\ Len(filter_str) > Len(information)
    /\ SelectedMode = "info"

KnownRelations ==
    { <<">">>, <<">","=">>, <<"<">>, <<"<","=">>, <<"=","=">>, <<"=">>,
      <<"!","=">> }

\* the word at index k (0-based) starts a condition that is malformed
BadCondition(ws, k) ==
    LET w == LowerStr(ws[k + 1])
    IN  /\ w \notin {W_and, W_or, W_xor}
        /\ IF w = W_saa
           THEN k + 2 > Len(ws)
           ELSE \/ k + 3 > Len(ws)
                \/ ws[k + 2] \notin KnownRelations
                \/ ~FloatOk(ws[k + 3])

\* C10: when the parse loop is at a column name that is not followed by both
\* a relation and a cutoff ("saa": by a model id), or whose relation is not
\* one of > >= < <= == = !=, or whose cutoff is not numeric, the pass raises
\* an error and appends no token; no FilterExpression is produced.
C10_MalformedConditionRaises ==
    [][(pc = "loop" /\ i < Len(words) /\ BadCondition(words, i))
          => (pc' = "error" /\ filter' = filter)]_vars

\* C10 witness: the parse has failed at a condition, after a well-formed one,
\* whose relation is unknown although its cutoff is numeric
C10_Witness ==
    /\ pc = "error"
    /\ i > 0
    /\ i + 3 <= Len(words)
    /\ LowerStr(words[i + 1]) \notin {W_and, W_or, W_xor, W_saa}
    /\ words[i + 2] \notin KnownRelations
    /\ FloatOk(words[i + 3])

\* ------------------------------------------------------------------------
\* Properties of the evaluation
\* ------------------------------------------------------------------------

\* conditions with exactly one conjunction between neighbours
IsWellFormed(flt) ==
    /\ Len(flt) % 2 = 1
    /\ \A k \in 1..Len(flt) :
         flt[k].kind = (IF k % 2 = 1 THEN "cond" ELSE "conj")

\* whether the condition holds at row r of the table
CondHoldsAt(item, tl, r) ==
    RelationHolds(item.rel, Field(tl, item.colname)[r], item.cutoff)

\* the places of the conjunctions OR and XOR in a filter
Separators(flt) ==
    { k \in 1..Len(flt) : flt[k].kind = "conj" /\ flt[k].op \in {OR, XOR} }

\* The value at row r of a well-formed filter read as: runs of conditions
\* joined by AND, each run true where all its conditions hold, folded from
\* the left with the OR and XOR between the runs.
RECURSIVE GroupedValue(_, _, _)
GroupedValue(flt, tl, r) ==
    IF Separators(flt) = {}
    THEN \A k \in 1..Len(flt) :
            flt[k].kind = "cond" => CondHoldsAt(flt[k], tl, r)
    ELSE LET k == CHOOSE x \in Separators(flt) :
                     \A y \in Separators(flt) : y <= x
             left == GroupedValue(SubSeq(flt, 1, k - 1), tl, r)
             right == GroupedValue(SubSeq(flt, k + 1, Len(flt)), tl, r)
         IN  IF flt[k].op = OR THEN left \/ right ELSE left # right

\* "a > 0 and b < 0 or c > 0"
C1_Example ==
    << CondTok(<<"a">>, "greater", 0), ConjTok(AND),
       CondTok(<<"b">>, "less", 0), ConjTok(OR),
       CondTok(<<"c">>, "greater", 0) >>

\* C1: a well-formed filter is evaluated without error, and its mask is, row
\* by row, the AND of each maximal run of conditions joined by AND, folded
\* from the left with the OR and XOR between the runs; for
\* "a > 0 and b < 0 or c > 0" it is (a > 0 AND b < 0) OR (c > 0).
C1_AndGroupsThenFold ==
    IsWellFormed(filter) =>
        /\ pc # "error"
        /\ pc = "evaluated" =>
             /\ Len(flag) = Len(timeline.time)
             /\ \A r \in 1..Len(flag) :
                  flag[r] = GroupedValue(filter, timeline, r)
             /\ filter = C1_Example =>
                  \A r \in 1..Len(flag) :
                    flag[r] = ((timeline.a[r] > 0 /\ timeline.b[r] < 0)
                               \/ timeline.c[r] > 0)

\* C1 witness: "a > 0 and b < 0 or c > 0" is evaluated on a table whose first
\* row has a > 0 and b < 0 but not c > 0, and whose second row has neither
C1_Witness ==
    /\ pc = "evaluated"
    /\ filter = C1_Example
    /\ timeline.a = <<10, 10>>
    /\ timeline.b = <<-10, 10>>
    /\ timeline.c = <<-10, -10>>
    /\ flag = <<TRUE, FALSE>>

\* ------------------------------------------------------------------------
\* Properties of mergeGTI
\* ------------------------------------------------------------------------

\* two intervals overlap when each starts before the other stops
Overlap(iv1, iv2) == iv1[1] < iv2[2] /\ iv2[1] < iv1[2]

\* [the later of the two starts, the earlier of the two stops]
Tighter(iv1, iv2) ==
    << IF iv1[1] >= iv2[1] THEN iv1[1] ELSE iv2[1],
       IF iv1[2] <= iv2[2] THEN iv1[2] ELSE iv2[2] >>

\* the pairs (place in g1, place in g2), g1 outermost
PairsInOrder(g1, g2) ==
    [n \in 1..(Len(g1) * Len(g2)) |->
        <<((n - 1) \div Len(g2)) + 1, ((n - 1) % Len(g2)) + 1>>]

\* the overlap of every overlapping pair, in the order of the pairs
OverlapsInOrder(g1, g2) ==
    LET ps == SelectSeq(PairsInOrder(g1, g2),
                        LAMBDA p : Overlap(g1[p[1]], g2[p[2]]))
    IN  [n \in 1..Len(ps) |-> Tighter(g1[ps[n][1]], g2[ps[n][2]])]

\* C4: mergeGTI emits, for every pair of an original and a derived interval
\* that overlap, [max of the starts, min of the stops], in the order of the
\* pairs, and nothing for the other pairs; [[0,100]] with [[10,40],[60,90]]
\* gives [[10,40],[60,90]], and with [[-5,40]] gives [[0,40]].
C4_MergeEmitsOverlaps ==
    pc = "round" =>
        /\ gti = OverlapsInOrder(first_gti, second_gti)
        /\ (first_gti = << <<0, 100>> >>
              /\ second_gti = << <<10, 40>>, <<60, 90>> >>)
             => gti = << <<10, 40>>, <<60, 90>> >>
        /\ (first_gti = << <<0, 100>> >> /\ second_gti = << <<-5, 40>> >>)
             => gti = << <<0, 40>> >>

\* C4 witness: [[0,100]] has been merged with [[-5,40]], giving [[0,40]]
C4_Witness ==
    /\ pc = "round"
    /\ first_gti = << <<0, 100>> >>
    /\ second_gti = << <<-5, 40>> >>
    /\ gti = << <<0, 40>> >>

\* the whole millisecond nearest to t
NearestMilli(t) ==
    CHOOSE m \in (t - 1)..(t + 1) : m % 3 = 0

RoundedTable(g) ==
    [k \in 1..Len(g) |-> <<NearestMilli(g[k][1]), NearestMilli(g[k][2])>>]

\* C5 (the claim as stated): for every GTI table T, zero-length intervals
\* allowed, mergeGTI(T, T) followed by rounding is T (with its times rounded).
C5_SelfMergeIsIdentity ==
    (pc = "rounded" /\ first_gti = second_gti /\ IsGtiTable(first_gti))
        => gti = RoundedTable(first_gti)

\* C5 (amended): for every GTI table T whose intervals all have stop > start,
\* mergeGTI(T, T) is T, and after rounding it is T with its times rounded.
C5_SelfMergeOfProperIntervals ==
    (/\ pc \in {"round", "rounded"}
     /\ first_gti = second_gti
     /\ IsGtiTable(first_gti)
     /\ \A k \in 1..Len(first_gti) : first_gti[k][1] < first_gti[k][2])
        => gti = IF pc = "round" THEN first_gti ELSE RoundedTable(first_gti)

\* C5 witness: a table of two intervals of positive length, not all on whole
\* milliseconds, has been merged with itself and rounded
C5_Witness ==
    /\ pc = "rounded"
    /\ first_gti = second_gti
    /\ IsGtiTable(first_gti)
    /\ Len(first_gti) = 2
    /\ \A k \in 1..2 : first_gti[k][1] < first_gti[k][2]
    /\ \E k \in 1..2 : first_gti[k][1] % 3 # 0
    /\ gti = RoundedTable(first_gti)
    /\ gti # first_gti

\* ------------------------------------------------------------------------
\* Properties of the extraction of the bad time intervals
\* ------------------------------------------------------------------------

\* Whether time t lies in the n-th bad interval: an interval is half open,
\* [t0, t1), but for the one that lasts to the end of the exposure, [t0, t1].
InBadInterval(t, n) ==
    /\ bad_time_intervals[n][1] <= t
    /\ \/ t < bad_time_intervals[n][2]
       \/ /\ n = Len(bad_time_intervals)
          /\ in_bad_interval
          /\ t = bad_time_intervals[n][2]

\* the intervals are disjoint and ascending, and hold exactly the rows of the
\* TIMELINE table where the mask is true
IntervalsMatchMask ==
    /\ \A n \in 1..(Len(bad_time_intervals) - 1) :
         bad_time_intervals[n][2] <= bad_time_intervals[n + 1][1]
    /\ \A r \in 1..Len(flag) :
         flag[r] <=> \E n \in 1..Len(bad_time_intervals) :
                        InBadInterval(timeline.time[r], n)

\* C2 (the claim as stated): for any mask over a telemetry grid with
\* ascending timestamps, the bad intervals are pairwise disjoint, ascending,
\* and hold exactly the telemetry samples where the mask is true.
C2_IntervalsMatchMask ==
    pc = "extracted" => IntervalsMatchMask

\* C2 (amended): the same, provided the last event is not earlier than the
\* last telemetry sample.
C2_IntervalsMatchMaskWhenEventsLast ==
    (pc = "extracted"
       /\ events_time[Len(events_time)] >= timeline.time[Len(timeline.time)])
        => IntervalsMatchMask

\* C2 witness: a mask with two runs, the second one lasting to the last row,
\* has given two intervals, and the events last beyond the last row
C2_Witness ==
    /\ pc = "extracted"
    /\ flag = <<TRUE, FALSE, TRUE>>
    /\ Len(bad_time_intervals) = 2
    /\ in_bad_interval
    /\ events_time[Len(events_time)] > timeline.time[3]
    /\ IntervalsMatchMask

\* ------------------------------------------------------------------------
\* Properties of the runs
\* ------------------------------------------------------------------------

NoBadTime(d) == \A n \in 1..Len(d) : ~HasBit(d[n], DQ_BAD_TIME)

\* C3: on a file in which no event has the bad time flag, a Filter run and
\* then a Clear run leave the DQ value of every event equal to the original
\* one.
C3_FilterThenClearRestoresDq ==
    (pc = "closed" /\ log = <<"setDqFlag", "clearDqFlag">>
       /\ NoBadTime(original.dq))
        => disk.dq = original.dq

\* C3 witness: the Filter run has flagged an event of a file that has other
\* flags set, and the Clear run after it has ended
C3_Witness ==
    /\ pc = "closed"
    /\ log = <<"setDqFlag", "clearDqFlag">>
    /\ NoBadTime(original.dq)
    /\ original.dq[1] = DQ_BURST
    /\ \E k \in 1..Len(disk.history) :
         /\ disk.history[k].what = "flagged"
         /\ disk.history[k].filter = <<"a"," ",">"," ","0">>
    /\ disk.dq = original.dq

IsInfoRun == pc = "closed" /\ filter = <<ModeTok("info")>>

\* C6 (the claim as stated): at the end of a run in Info mode the DQ column,
\* every GTI table, the exposure times and the headers of the loaded file are
\* as they were when it was loaded, with an output file or without.
C6_InfoChangesNothing ==
    IsInfoRun => (fd = source_before /\ dq = source_before.dq
                    /\ disk = source_before)

\* C6 (amended): the same, but for the FILENAME keyword of the primary header
\* of the loaded file, which is the name of the output file when one is given,
\* and for the output file, which is then written.
C6_InfoChangesFilenameOnly ==
    IsInfoRun =>
        /\ [fd EXCEPT !.filename = source_before.filename] = source_before
        /\ dq = source_before.dq
        /\ disk = source_before
        /\ output = NoOutput => (fd = source_before /\ outfile = output_before)
        /\ output # NoOutput => (fd.filename = output /\ outfile = fd)

\* C6 witness: an Info run with an output file has ended, on a file that has
\* the bad time flag set
C6_Witness ==
    /\ IsInfoRun
    /\ output # NoOutput
    /\ ~NoBadTime(source_before.dq)
    /\ outfile = fd
    /\ fd.filename # source_before.filename

\* the errors of C7: a malformed filter, a SAA model or a column that is not
\* known (KeyError), more than one EVENTS or TIMELINE table, an output file
\* that exists, no EVENTS table, a filter on a file with no TIMELINE table
ListedAborts ==
    {"filter", "KeyError", "events_tables", "timeline_tables", "exists",
     "no_events", "no_timeline"}

\* C7: when a run ends with one of these errors, nothing is changed: the DQ
\* column, the GTI tables, the exposure times and the headers are those of the
\* file when the run started, in memory and on disk, and no output file is
\* written.
C7_AbortsBeforeAnyChange ==
    (pc = "aborted" /\ abort \in ListedAborts) =>
        /\ disk = source_before
        /\ outfile = output_before
        /\ fd \in {NoFile, source_before}
        /\ dq \in {<<>>, source_before.dq}

\* C7 witness: a run whose filter names a SAA model that is not known has
\* ended with an error, after the file was opened for update
C7_Witness ==
    /\ pc = "aborted"
    /\ abort = "KeyError"
    /\ \E k \in 1..Len(filter) :
         filter[k].rel = "saaFilter"
           /\ filter[k].cutoff \notin SaaModelMin..SaaModelMax
    /\ output = NoOutput
    /\ fd = source_before

\* ------------------------------------------------------------------------
\* Properties of the flagging of the DQ column
\* ------------------------------------------------------------------------

AllBad(fl) == \A r \in 1..Len(fl) : fl[r]

\* C11 (the claim as stated): when the mask is true at every row of the
\* TIMELINE table, every event, from the first to the last, has the bad time
\* flag after the flagging.
C11_AllBadFlagsEveryEvent ==
    [][(pc = "extract" /\ AllBad(flag))
         => \A n \in 1..Len(dq') : HasBit(dq'[n], DQ_BAD_TIME)]_vars

\* C11 (amended): when the mask is true at every row, there is one bad
\* interval, from the first time of the TIMELINE table to the time of the last
\* event; every event that is not earlier than the first time of the TIMELINE
\* table has the bad time flag, and an earlier event keeps its DQ value.
C11_AllBadFlagsEventsFromFirstRow ==
    [][(pc = "extract" /\ AllBad(flag))
         => /\ bad_time_intervals' =
                  << <<timeline.time[1], events_time[Len(events_time)]>> >>
            /\ \A n \in 1..Len(dq') :
                 IF events_time[n] >= timeline.time[1]
                 THEN HasBit(dq'[n], DQ_BAD_TIME)
                 ELSE dq'[n] = dq[n]]_vars

\* C11 witness: the mask was true at every row, an event is earlier than the
\* first row and has no flag, a later event has the flag
C11_Witness ==
    /\ pc = "extracted"
    /\ AllBad(flag)
    /\ Len(flag) > 1
    /\ events_time[1] < timeline.time[1]
    /\ dq[1] = 0
    /\ HasBit(dq[Len(dq)], DQ_BAD_TIME)

\* whether event n (1-based) is in the range ccos.range gives for the n-th
\* interval of the list iv
InMappedRange(k, iv, n) ==
    LET r == CcosRange(events_time, iv[n][1], iv[n][2])
    IN  r[1] < k /\ k <= r[2]

\* C12 (the claim as stated): the flagging ORs the bad time flag into the
\* events in the mapped range of some bad interval and changes nothing else.
C12_OnlyMappedRangesFlagged ==
    [][pc = "extract"
         => \A k \in 1..Len(dq) :
              dq'[k] = IF \E n \in 1..Len(bad_time_intervals') :
                             InMappedRange(k, bad_time_intervals', n)
                       THEN SetBit(dq[k], DQ_BAD_TIME)
                       ELSE dq[k]]_vars

\* C12 (amended): the same, where the interval that lasts to the end of the
\* exposure is applied from the start of its mapped range to the last event.
C12_OnlyMappedRangesAndTailFlagged ==
    [][pc = "extract"
         => \A k \in 1..Len(dq) :
              dq'[k] = IF \E n \in 1..Len(bad_time_intervals') :
                             \/ InMappedRange(k, bad_time_intervals', n)
                             \/ /\ n = Len(bad_time_intervals')
                                /\ in_bad_interval'
                                /\ k > CcosRange(events_time,
                                         bad_time_intervals'[n][1],
                                         bad_time_intervals'[n][2])[1]
                       THEN SetBit(dq[k], DQ_BAD_TIME)
                       ELSE dq[k]]_vars

\* C12 witness: an interval inside the exposure and one that lasts to its end
\* were flagged, on a DQ column with other flags; an event between them is
\* as before
C12_Witness ==
    /\ pc = "extracted"
    /\ flag = <<TRUE, FALSE, TRUE>>
    /\ timeline.time[1] = 0
    /\ events_time[1] = 1
    /\ events_time[2] = 4
    /\ events_time[Len(events_time)] = 7
    /\ dq[1] = DQ_BURST + 8 + DQ_BAD_TIME
    /\ dq[2] = DQ_BAD_TIME
    /\ dq[Len(dq)] = DQ_BAD_TIME

\* ------------------------------------------------------------------------
\* Properties of the Clear and Filter runs
\* ------------------------------------------------------------------------

\* the bits of a DQ value (a 16-bit signed integer that is not negative)
DqBits ==
    {1, 2, 4, 8, 16, 32, 64, 128, 256, 512, 1024, 2048, 4096, 8192, 16384}

IsClearRun == pc = "closed" /\ Dispatch(filter) = "clearDqFlag"

IsFilterRun == pc = "closed" /\ Dispatch(filter) = "setDqFlag"

\* C13: after a Clear run no event has the bad time flag, and every other
\* bit of the DQ value of every event, the burst flag too, is as before.
C13_ClearRemovesOnlyBadTime ==
    IsClearRun =>
        /\ dq = fd.dq
        /\ Len(fd.dq) = Len(source_before.dq)
        /\ \A n \in 1..Len(fd.dq) :
             /\ ~HasBit(fd.dq[n], DQ_BAD_TIME)
             /\ \A bit \in DqBits \ {DQ_BAD_TIME} :
                  HasBit(fd.dq[n], bit) <=> HasBit(source_before.dq[n], bit)
        /\ output = NoOutput => disk.dq = fd.dq

\* C13 witness: a Clear run has ended on a file that had the bad time flag,
\* the burst flag and another flag set
C13_Witness ==
    /\ IsClearRun
    /\ \E n \in 1..Len(fd.dq) :
         /\ HasBit(source_before.dq[n], DQ_BAD_TIME)
         /\ HasBit(source_before.dq[n], DQ_BURST)
         /\ fd.dq[n] = DQ_BURST
    /\ \E n \in 1..Len(fd.dq) : fd.dq[n] = 8

\* C14: after recomputeExptime the exposure time in the EVENTS header is the
\* sum of stop - start over the list recomputeExptime returns; for FUV the
\* keyword of the segment and EXPTIME both hold it.
C14_ExptimeIsSumOfGti ==
    (IsClearRun \/ IsFilterRun) =>
        /\ fd.exptime.exptime = SumGTI(gti, 1)
        /\ (fd.detector = "FUV" /\ fd.segment = "FUVA")
              => fd.exptime.exptimea = SumGTI(gti, 1)
        /\ (fd.detector = "FUV" /\ fd.segment = "FUVB")
              => fd.exptime.exptimeb = SumGTI(gti, 1)

\* C14 witness: a Filter run on a FUV file of segment B has ended with an
\* exposure time that is not the one the file had
C14_Witness ==
    /\ IsFilterRun
    /\ fd.detector = "FUV"
    /\ fd.segment = "FUVB"
    /\ Len(gti) > 0
    /\ fd.exptime.exptimeb = SumGTI(gti, 1)
    /\ fd.exptime.exptime = SumGTI(gti, 1)
    /\ source_before.exptime.exptimeb # SumGTI(gti, 1)

\* C15: with an output file, a Filter or Clear run that ends leaves the input
\* file as it was and writes the file in memory, changes included, as one new
\* file; with no output file the changes are made to the input file and no
\* file is written.
C15_OutputOrInPlace ==
    (IsClearRun \/ IsFilterRun) =>
        /\ output # NoOutput =>
             /\ IoMode(filter, output) = "readonly"
             /\ disk = source_before
             /\ ~output_before.exists
             /\ outfile = fd
             /\ outfile.dq = dq
             /\ outfile.history # source_before.history
        /\ output = NoOutput =>
             /\ IoMode(filter, output) = "update"
             /\ disk = fd
             /\ disk.dq = dq
             /\ disk.history # source_before.history
             /\ outfile = output_before

\* C15 witness: a Filter run with an output file has ended; the output file
\* has an event flagged that the input file has not
C15_Witness ==
    /\ IsFilterRun
    /\ output # NoOutput
    /\ disk = source_before
    /\ \E n \in 1..Len(dq) :
         HasBit(outfile.dq[n], DQ_BAD_TIME) /\ ~HasBit(disk.dq[n], DQ_BAD_TIME)

\* ------------------------------------------------------------------------
\* Properties of a TIMELINE table that lacks a column
\* ------------------------------------------------------------------------

LacksInfoColumn(f) ==
    f.n_timeline = 1 /\ \E col \in InfoColumns : col \notin f.columns

\* a parsed filter holds a condition on a column the TIMELINE table has not
LacksFilterColumn(flt) ==
    \E k \in 1..Len(flt) :
        /\ flt[k].kind = "cond"
        /\ flt[k].rel # "saaFilter"
        /\ ~HasColumn(flt[k].colname)

\* the run is past printInfo, or past the evaluation of the filter
PastPrintInfo ==
    filter = <<ModeTok("info")>> /\ pc \in {"write", "closed"}

PastEvaluation ==
    Dispatch(filter) = "setDqFlag" /\ pc \in {"intervals", "gti", "write", "closed"}

\* C16 (the claim as stated): in Info mode a column missing from the TIMELINE
\* table does not end the run with an error; in Filter mode a condition on a
\* missing column does.
C16_InfoToleratesMissingColumn ==
    /\ ~(filter = <<ModeTok("info")>> /\ pc = "aborted" /\ abort = "KeyError")
    /\ PastEvaluation => ~LacksFilterColumn(filter)

\* C16 (amended): in Info mode a file with no TIMELINE table is reported and
\* the run goes on, but a column that printInfo reads and the TIMELINE table
\* lacks ends the run with KeyError; in Filter mode a condition on a missing
\* column ends the run.
C16_MissingColumnEndsRun ==
    /\ PastPrintInfo => ~LacksInfoColumn(fd)
    /\ (filter = <<ModeTok("info")>> /\ pc = "aborted" /\ abort = "KeyError")
          => LacksInfoColumn(fd)
    /\ PastEvaluation => ~LacksFilterColumn(filter)

\* C16 witness: an Info run on a file whose TIMELINE table lacks a column
\* has ended with KeyError
C16_Witness ==
    /\ filter = <<ModeTok("info")>>
    /\ pc = "aborted"
    /\ abort = "KeyError"
    /\ fd.n_timeline = 1
    /\ "darkrate" \notin fd.columns

\* ------------------------------------------------------------------------
\* Properties of saaModel
\* ------------------------------------------------------------------------

\* C17: saaModel(model) returns the list of vertices of the model for every
\* model number from 0 to 32 and raises an error for every other number; a
\* call has no side effect: it returns the same list after saaFilter has
\* appended the first vertex to the list of an earlier call.
C17_LookupReturnsModelVertices ==
    pc \in {"saa_returned", "saa_error"} =>
        IF model_number \in 0..32
        THEN /\ pc = "saa_returned"
             /\ saa_result.err = ""
             /\ saa_result.v = SaaVertices(model_number)
             /\ model_vertices = SaaVertices(model_number)
        ELSE /\ pc = "saa_error"
             /\ saa_result.err = "KeyError"

\* C17 witness: model 32 is returned with its 14 vertices by a call that
\* follows one after which saaFilter closed the loop of model 32
C17_Witness ==
    /\ pc = "saa_returned"
    /\ lookups = 2
    /\ model_number = 32
    /\ 32 \in closed_loops
    /\ Len(saa_result.v) = 14
    /\ saa_result.v[1] = <<-283, 140>>
    /\ saa_result.v[14] = <<-286, 2767>>

\* C18: for a square contour that encloses longitude 10, latitude 0, with
\* the reference vector saaFilter computes, the point (10, 0), like every
\* point strictly inside the square, is reported inside, and the point
\* (190, 0) is reported outside, its dot product with the reference vector
\* being negative.
StrictlyInside ==
    \E h \in {5 * SquareHalfSide} :
       /\ contour \in {Square(h), SquareReversed(h)}
       /\ 10 - h < hst_longitude /\ hst_longitude < 10 + h
       /\ -h < hst_latitude /\ hst_latitude < h

OppositeSide ==
    Dot(ToRect(hst_longitude, hst_latitude),
        MiddleSAA(contour_model, Append(contour, contour[1]))) < 0

C18_SquareInsideAndOpposite ==
    pc = "tested" =>
       /\ (hst_longitude = 10 /\ hst_latitude = 0 => saa_flag)
       /\ (StrictlyInside => saa_flag)
       /\ (hst_longitude = 190 /\ hst_latitude = 0
              => OppositeSide /\ ~saa_flag)

C18_Witness ==
    /\ pc = "tested"
    /\ hst_longitude = 190
    /\ hst_latitude = 0
    /\ OppositeSide
    /\ ~saa_flag

\* C19: when a Filter run saves the new list of good time intervals, a file
\* with no GTI table or with one gets the list as one more GTI table, and in
\* a file with two GTI tables or more the list replaces the rows of the last
\* one (highest EXTVER), the number of GTI tables staying what it was.
C19_AppendOrReplaceByCount ==
    IsFilterRun =>
        LET n == Len(source_before.gtis)
            last == GtiHdu(source_before)
        IN  /\ n <= 1 =>
                 /\ Len(fd.gtis) = n + 1
                 /\ fd.gtis[n + 1].rows = gti
                 /\ \A k \in 1..n : fd.gtis[k] = source_before.gtis[k]
            /\ n >= 2 =>
                 /\ Len(fd.gtis) = n
                 /\ fd.gtis[last].rows = gti
                 /\ \A k \in (1..n) \ {last} :
                      fd.gtis[k] = source_before.gtis[k]

\* C20: when the first GTI table is a GTI table and the times of the events
\* are ascending, the list recomputeExptime returns is a GTI table: stop >=
\* start in every interval, the intervals ascending by start and none
\* overlapping another.
AscendingTimes ==
    \A n \in 1..(Len(events_time) - 1) : events_time[n] <= events_time[n + 1]

C20_FinalGtiIsGtiTable ==
    (IsGtiTable(first_gti) /\ AscendingTimes) =>
        /\ pc \in {"merge", "round", "rounded"} => IsGtiTable(second_gti)
        /\ pc \in {"round", "rounded"} => IsGtiTable(gti)

\* C20 witness: a first GTI table of two rows and a DQ column with a flagged
\* event between good ones have given a final list of two intervals or more
C20_Witness ==
    /\ pc = "rounded"
    /\ IsGtiTable(first_gti)
    /\ AscendingTimes
    /\ Len(first_gti) = 2
    /\ Len(second_gti) = 2
    /\ Len(gti) >= 2
    /\ IsGtiTable(gti)

\* ------------------------------------------------------------------------
\* Properties of the order of the tokens of self.filter
\* ------------------------------------------------------------------------

FirstIsConj == Len(filter) > 0 /\ filter[1].kind = "conj"

AdjacentConds ==
    \E k \in 1..(Len(filter) - 1) :
       filter[k].kind = "cond" /\ filter[k + 1].kind = "cond"

\* the number of words a token was made from
TokenWords(tok) ==
    IF tok.kind = "conj" THEN 1
    ELSE IF tok.rel = "saaFilter" THEN 2
    ELSE 3

RECURSIVE SumTokenWords(_, _)
SumTokenWords(flt, k) ==
    IF k > Len(flt) THEN 0
    ELSE TokenWords(flt[k]) + SumTokenWords(flt, k + 1)

\* C21 (the claim as stated): the expression interpretFilter returns without
\* error does not begin with a conjunction and has no condition that is
\* followed at once by another condition.
C21_ExpressionInvariant ==
    pc = "done" => ~FirstIsConj /\ ~AdjacentConds

\* C21 (amended): interpretFilter does not check the order of the tokens. The
\* expression it returns from its loop holds conjunctions and conditions only,
\* made from all the words and from nothing else, and its first token is a
\* conjunction exactly when the first word is and, or, xor in any case.
C21_TokensFollowWords ==
    (pc = "done" /\ Len(words) > 0) =>
        /\ \A k \in 1..Len(filter) : filter[k].kind \in {"conj", "cond"}
        /\ SumTokenWords(filter, 1) = Len(words)
        /\ FirstIsConj <=> LowerStr(words[1]) \in {W_and, W_or, W_xor}

\* C21 witness: an expression that begins with a conjunction and in which a
\* condition follows a condition has been returned
C21_Witness ==
    /\ pc = "done"
    /\ FirstIsConj
    /\ AdjacentConds

\* ------------------------------------------------------------------------
\* Properties of the runs of the mask
\* ------------------------------------------------------------------------

\* the rows (1-based) where a run of true values of the mask begins
RunStarts(fl) ==
    { r \in 1..Len(fl) : fl[r] /\ (r = 1 \/ ~fl[r - 1]) }

\* the n-th row of RunStarts, in ascending order
NthRunStart(fl, n) ==
    CHOOSE r \in RunStarts(fl) :
       Cardinality({ q \in RunStarts(fl) : q < r }) = n - 1

\* the interval of the run that begins at row r: to the first false row
\* after it, or to the last event when there is none
RunInterval(fl, time_col, ev_time, r) ==
    LET later == { q \in (r + 1)..Len(fl) : ~fl[q] }
    IN  IF later = {} THEN <<time_col[r], ev_time[Len(ev_time)]>>
        ELSE <<time_col[r],
               time_col[CHOOSE q \in later : \A p \in later : q <= p]>>

\* C22: each maximal run of true values of the mask gives exactly one bad
\* interval, from the time of the first row of the run to the time of the
\* first false row after it, or to the time of the last event when the run
\* lasts to the last row; rows at 0, 1, ..., 5 (3 units of the model apart)
\* with the mask T F F F T T and the last event at the time of the last row
\* give the two intervals [0, 1) and [4, 5].
C22_OneIntervalPerRun ==
    pc = "extracted" =>
        /\ Len(bad_time_intervals) = Cardinality(RunStarts(flag))
        /\ \A n \in 1..Len(bad_time_intervals) :
             bad_time_intervals[n] =
                 RunInterval(flag, timeline.time, events_time,
                             NthRunStart(flag, n))
        /\ in_bad_interval <=> flag[Len(flag)]
        /\ (timeline = GridTimeline /\ flag = GridMask)
              => bad_time_intervals = << <<0, 3>>, <<12, 15>> >>

\* C22 witness: the mask T F F F T T over six rows has given the two intervals
C22_Witness ==
    /\ pc = "extracted"
    /\ timeline = GridTimeline
    /\ flag = GridMask
    /\ events_time[Len(events_time)] = 15
    /\ bad_time_intervals = << <<0, 3>>, <<12, 15>> >>
    /\ in_bad_interval

\* ------------------------------------------------------------------------
\* Properties of the good runs of recomputeExptime
\* ------------------------------------------------------------------------

\* event n (1-based) has neither the bad time flag nor the burst flag
GoodEvent(d, n) == ~HasBit(d[n], DQ_BAD_TIME) /\ ~HasBit(d[n], DQ_BURST)

\* the events where a maximal run of good events begins
GoodRunStarts(d) ==
    { n \in 1..Len(d) : GoodEvent(d, n) /\ (n = 1 \/ ~GoodEvent(d, n - 1)) }

\* the last event of the run of good events that begins at n
GoodRunEnd(d, n) ==
    CHOOSE e \in n..Len(d) :
       /\ \A q \in n..e : GoodEvent(d, q)
       /\ e = Len(d) \/ ~GoodEvent(d, e + 1)

\* the maximal runs of good events in order, as 0-based [first, last]
GoodRuns(d) ==
    [k \in 1..Cardinality(GoodRunStarts(d)) |->
        LET n == CHOOSE r \in GoodRunStarts(d) :
                    Cardinality({ q \in GoodRunStarts(d) : q < r }) = k - 1
        IN  <<n - 1, GoodRunEnd(d, n) - 1>>]

\* C23: the good runs recomputeExptime finds are exactly the maximal runs of
\* consecutive events with neither the bad time flag nor the burst flag, each
\* as [index of its first event, index of its last event], a run from the
\* first event and a run to the last event included; when every event has
\* one of the two flags there is no good run.
C23_GoodRunsAreMaximalRuns ==
    pc \in {"merge", "round", "rounded"} =>
        /\ gti_indices = GoodRuns(dq)
        /\ (\A n \in 1..Len(dq) : ~GoodEvent(dq, n)) => gti_indices = <<>>
        /\ second_gti = [k \in 1..Len(gti_indices) |->
                            <<events_time[gti_indices[k][1] + 1],
                              events_time[gti_indices[k][2] + 1]>>]

\* C23 witness: a run of one event at the first event and a run to the last
\* event, with an event that has the burst flag between them
C23_Witness ==
    /\ pc = "merge"
    /\ Len(dq) = MaxRecEvents
    /\ dq[2] = DQ_BURST
    /\ gti_indices = << <<0, 0>>, <<2, Len(dq) - 1>> >>

\* ------------------------------------------------------------------------
\* Properties of the GTI tables of a file
\* ------------------------------------------------------------------------

\* C24: a Clear run on a file with more than one GTI table overwrites the
\* table with the highest EXTVER with the rows of the table with the second
\* highest EXTVER, the overwritten table keeping its EXTVER and the number of
\* GTI tables staying what it was; on a file with one GTI table it changes no
\* GTI table.
C24_ClearCopiesPreviousGti ==
    IsClearRun =>
        LET before == source_before.gtis
            n == Len(before)
        IN  /\ Len(fd.gtis) = n
            /\ n = 1 => fd.gtis = before
            /\ n > 1 =>
                 \E last \in 1..n : \E prev \in (1..n) \ {last} :
                    /\ \A k \in 1..n : before[k].extver <= before[last].extver
                    /\ \A k \in (1..n) \ {last} :
                         before[k].extver <= before[prev].extver
                    /\ fd.gtis[last] = [extver |-> before[last].extver,
                                        rows |-> before[prev].rows]
                    /\ \A k \in (1..n) \ {last} : fd.gtis[k] = before[k]

\* C24 witness: the table with the highest EXTVER came first in the file and
\* had other rows than the second table, whose rows it now has
C24_Witness ==
    /\ IsClearRun
    /\ Len(source_before.gtis) = 2
    /\ source_before.gtis[1].extver = 2
    /\ source_before.gtis[2].extver = 1
    /\ source_before.gtis[1].rows # source_before.gtis[2].rows
    /\ fd.gtis[1] = [extver |-> 2, rows |-> source_before.gtis[2].rows]
    /\ fd.gtis[2] = source_before.gtis[2]

\* ------------------------------------------------------------------------
\* Properties of the words interpretFilter reads
\* ------------------------------------------------------------------------

\* the place (1-based) in words of the first word of the t-th token
RECURSIVE WordStart(_, _)
WordStart(flt, t) ==
    IF t = 1 THEN 1 ELSE WordStart(flt, t - 1) + TokenWords(flt[t - 1])

\* the t-th token is what the words at its place stand for
TokenFromWords(flt, ws, t) ==
    LET p == WordStart(flt, t)
        first == LowerStr(ws[p])
    IN  IF first \in {W_and, W_or, W_xor}
        THEN /\ flt[t].kind = "conj"
             /\ flt[t].op = (IF first = W_and THEN AND
                              ELSE IF first = W_or THEN OR ELSE XOR)
        ELSE IF first = W_saa
        THEN /\ flt[t].kind = "cond"
             /\ flt[t].colname = ws[p]
             /\ flt[t].rel = "saaFilter"
             /\ p + 1 <= Len(ws)
             /\ IntOk(ws[p + 1])
             /\ flt[t].cutoff = IntVal(ws[p + 1])
        ELSE /\ flt[t].kind = "cond"
             /\ flt[t].colname = ws[p]
             /\ p + 2 <= Len(ws)
             /\ flt[t].rel = RelationFcn(ws[p + 1])
             /\ flt[t].rel # "unknown"
             /\ FloatOk(ws[p + 2])
             /\ flt[t].cutoff = FloatVal(ws[p + 2])

\* C25: the tokens interpretFilter returns from its loop are, in the order of
\* the words, a conjunction for a word and, or, xor in any case, a condition
\* with no relation for "saa" in any case and the one word after it, read as
\* an integer, and a condition for any other word and the two words after it,
\* read as relation and as floating point cutoff; the loop has then read every
\* word, and a call always ends.
C25_TokensFromAllWords ==
    /\ [](pc = "done" /\ Len(words) > 0 =>
             /\ i = Len(words)
             /\ SumTokenWords(filter, 1) = Len(words)
             /\ \A t \in 1..Len(filter) : TokenFromWords(filter, words, t))
    /\ <>(pc \in {"done", "error"})

\* C25 witness: a conjunction, a condition on "saa" and a condition on a
\* column have been made of six words
C25_Witness ==
    /\ pc = "done"
    /\ Len(words) = 6
    /\ i = 6
    /\ Len(filter) = 3
    /\ \E t \in 1..3 : filter[t].kind = "conj"
    /\ \E t \in 1..3 : filter[t].rel = "saaFilter"
    /\ \E t \in 1..3 : filter[t].rel = "greater"

\* the file had one GTI table of EXTVER 1 and its other GTI tables had a
\* larger EXTVER
FirstGtiIsVersionOne(f) ==
    /\ f.exists
    /\ Len(f.gtis) > 0
    /\ f.gtis[FirstGtiHdu(f)].extver = 1
    /\ \A k \in (1..Len(f.gtis)) \ {FirstGtiHdu(f)} : f.gtis[k].extver > 1

\* C26: on a file whose first GTI table has EXTVER 1 and whose other GTI
\* tables have a larger EXTVER, after any sequence of Filter and Clear runs
\* that have ended the first GTI table is as it was, in the input file and in
\* the file a run has written, and every run has read the rows it had.
C26_FirstGtiKept ==
    FirstGtiIsVersionOne(original) =>
        /\ FirstGtiHdu(disk) = FirstGtiHdu(original)
        /\ disk.gtis[FirstGtiHdu(disk)] = original.gtis[FirstGtiHdu(original)]
        /\ (IsClearRun \/ IsFilterRun) =>
              /\ first_gti = GetFirstGTI(original)
              /\ fd.gtis[FirstGtiHdu(fd)]
                    = original.gtis[FirstGtiHdu(original)]

\* C26 witness: two Filter runs in place on a file with one GTI table have
\* left it as it was and the second table with other rows
C26_Witness ==
    /\ pc = "closed"
    /\ log = <<"setDqFlag", "setDqFlag">>
    /\ FirstGtiIsVersionOne(original)
    /\ Len(original.gtis) = 1
    /\ Len(disk.gtis) = 2
    /\ disk.gtis[1] = original.gtis[1]
    /\ disk.gtis[2].rows # original.gtis[1].rows
    /\ first_gti = original.gtis[1].rows

\* C27: on a file that starts with exactly one GTI table, of EXTVER 1, after
\* any sequence of Filter and Clear runs in place that have ended the file has
\* at most two GTI tables, of EXTVER 1 and 2.
C27_AtMostTwoGtiTables ==
    (original.exists /\ Len(original.gtis) = 1
       /\ original.gtis[1].extver = 1) =>
        /\ Len(disk.gtis) \in {1, 2}
        /\ disk.gtis[1].extver = 1
        /\ Len(disk.gtis) = 2 => disk.gtis[2].extver = 2

\* C27 witness: the second of two Filter runs in place has found two GTI
\* tables and left two
C27_Witness ==
    /\ pc = "closed"
    /\ log = <<"setDqFlag", "setDqFlag">>
    /\ Len(original.gtis) = 1
    /\ original.gtis[1].extver = 1
    /\ Len(source_before.gtis) = 2
    /\ Len(disk.gtis) = 2
    /\ disk.gtis[2].extver = 2

\* ------------------------------------------------------------------------
\* Properties of two Filter runs in both orders
\* ------------------------------------------------------------------------

BadTime(f, n) == HasBit(f.dq[n], DQ_BAD_TIME)

\* the DQ column is the same in both orders, and an event has the bad time
\* flag exactly when it had it or one of the two filters has flagged it
SameDqInBothOrders ==
    /\ file_ab.dq = file_ba.dq
    /\ \A n \in 1..Len(file_0.dq) :
         /\ BadTime(file_ab, n) <=> (BadTime(file_a, n) \/ BadTime(file_b, n))
         /\ \A bit \in DqBits \ {DQ_BAD_TIME} :
              HasBit(file_ab.dq[n], bit) <=> HasBit(file_0.dq[n], bit)

\* C28: after two Filter runs in place with the filters A and B the DQ column
\* and the exposure time are the same whichever filter came first, and an
\* event has the bad time flag exactly when it had it before or A or B has
\* flagged it.
C28_FilterRunsCommute ==
    pc = "order_done" =>
        /\ SameDqInBothOrders
        /\ file_ab.exptime = file_ba.exptime

\* C28 witness: two filters that flag different events, neither of them all
\* the events, have been applied in both orders
C28_Witness ==
    /\ pc = "order_done"
    /\ file_a.dq # file_b.dq
    /\ file_ab.dq # file_a.dq
    /\ file_ab.dq # file_b.dq
    /\ file_ab.dq = file_ba.dq
    /\ file_ab.exptime = file_ba.exptime
    /\ file_ab.exptime # file_0.exptime

\* ------------------------------------------------------------------------
\* Properties of the exposure time and the GTI tables
\* ------------------------------------------------------------------------

\* the sum of stop - start over the rows of the GTI table of the highest
\* EXTVER of the file f
LastGtiSum(f) == SumGTI(f.gtis[GtiHdu(f)].rows, 1)

\* C29 (the claim as stated): after every Filter or Clear run that has ended,
\* the exposure time of the file is the sum of stop - start over the rows of
\* its GTI table of the highest EXTVER.
C29_ExptimeIsSumOfLastGtiTable ==
    (IsClearRun \/ IsFilterRun) => fd.exptime.exptime = LastGtiSum(fd)

\* C29 (amended): that holds after a Filter run. After a Clear run the
\* exposure time is the sum over the list recomputeExptime has returned, which
\* clearDqFlag does not write to the file: the GTI tables have the rows the
\* file had, the last one those of the table before it.
C29_ExptimeIsSumOfSavedGti ==
    /\ IsFilterRun =>
          /\ fd.gtis[GtiHdu(fd)].rows = gti
          /\ fd.exptime.exptime = LastGtiSum(fd)
    /\ IsClearRun =>
          /\ fd.exptime.exptime = SumGTI(gti, 1)
          /\ \A k \in 1..Len(fd.gtis) :
               \E j \in 1..Len(source_before.gtis) :
                  fd.gtis[k].rows = source_before.gtis[j].rows

\* C29 witness: a Clear run has ended with an exposure time that is not the
\* sum over the only GTI table of the file
C29_Witness ==
    /\ IsClearRun
    /\ Len(fd.gtis) = 1
    /\ fd.exptime.exptime = SumGTI(gti, 1)
    /\ fd.exptime.exptime # LastGtiSum(fd)

\* ------------------------------------------------------------------------
\* Properties of a filter that ends with a conjunction
\* ------------------------------------------------------------------------

EndsWithConj(flt) == Len(flt) > 0 /\ flt[Len(flt)].kind = "conj"

\* the filter without its last token
ButLast(flt) == SubSeq(flt, 1, Len(flt) - 1)

\* the last token of flt that is not "and" is a condition
EndsInCondition(flt) ==
    \E k \in 1..Len(flt) :
       /\ flt[k].kind = "cond"
       /\ \A j \in (k + 1)..Len(flt) : flt[j].kind = "conj" /\ flt[j].op = AND

\* C30 (the claim as stated): a filter whose last token is a conjunction is
\* evaluated without error, and its mask is the mask of the filter without
\* that token.
C30_TrailingConjunctionIgnored ==
    EndsWithConj(filter) =>
        LET rg == EvalGroups(ButLast(filter), timeline)
        IN  /\ pc # "error"
            /\ pc = "evaluated" =>
                 /\ rg.err = ""
                 /\ flag = FoldFlags(rg.flags)

\* C30 (amended): let a filter end with a conjunction c, and let the filter
\* without c be evaluated without error. When c is "and", or the last token
\* before c that is not "and" is a condition, the filter is evaluated without
\* error and its mask is that of the filter without c; for a well-formed
\* filter followed by c that is the mask of the well-formed filter. When c is
\* "or" or "xor" and the last token before it that is not "and" is "or" or
\* "xor", the evaluation raises an error.
C30_TrailingConjunctionAfterCondition ==
    EndsWithConj(filter) =>
        LET g == ButLast(filter)
            c == filter[Len(filter)].op
            rg == EvalGroups(g, timeline)
        IN  /\ IsWellFormed(g) =>
                 /\ pc # "error"
                 /\ pc = "evaluated" =>
                      \A r \in 1..Len(timeline.time) :
                         flag[r] = GroupedValue(g, timeline, r)
            /\ (rg.err = "" /\ (c = AND \/ EndsInCondition(g))) =>
                 /\ pc # "error"
                 /\ pc = "evaluated" => flag = FoldFlags(rg.flags)
            /\ (rg.err = "" /\ c # AND /\ ~EndsInCondition(g)) =>
                 pc \notin {"fold", "evaluated"}

\* C30 witness: "a > 0 xor b < 0 or" has been evaluated on a table whose first
\* row has a > 0 and b < 0 and whose second row has a > 0 only
C30_Witness ==
    /\ pc = "evaluated"
    /\ filter = <<CondAt(1), ConjTok(XOR), CondAt(2), ConjTok(OR)>>
    /\ timeline.a = <<10, 10>>
    /\ timeline.b = <<-10, 10>>
    /\ flag = <<FALSE, TRUE>>

====
